---------------------------- MODULE Spec2Model ----------------------------
(***************************************************************************)
(* Model of the oxide extractor: a tree of byte-level state machines       *)
(* (crates/oxide/src/extractor) driven by Extractor::extract, and of the   *)
(* Ruby pre-processor (extractor/pre_processors/ruby.rs).                  *)
(*                                                                         *)
(* A byte is a one-character string; the two bytes TLA+ cannot write in a  *)
(* string literal are named (NUL, Backtick).  Positions are 0-based as in  *)
(* the source, so the byte at position p is input[p + 1].                  *)
(***************************************************************************)
EXTENDS Integers, Sequences, FiniteSets, TLC

VARIABLES
    input,               \* cursor.input: the byte buffer handed to Extractor::new
    pos,                 \* the loop variable i of extract / of a machine's test loop
    pc,                  \* "scan" while the loop runs, "done" once extract returned;
                         \* "ruby" before Ruby::process is called, "processed" after
    candidate_machine,   \* Extractor.candidate_machine
    css_variable_machine,\* Extractor.css_variable_machine
    candidate_machines,  \* Extractor.candidate_machines (nested machines)
    in_flight_spans,     \* extract's local in_flight_spans
    extracted,           \* extract's local extracted (the returned list)
    obs,                 \* what the outer CandidateMachine saw in the last step
    unit,                \* the stand-alone machines of the per-machine test loops
    actual,              \* the spans each stand-alone machine has emitted
    output,              \* the buffer Ruby::process returned
    failed_pop,          \* what BracketStack::pop does to a top entry that does
                         \* not match the bracket: "kept" or "dropped"
    fed_machines         \* the machines of the Extractor already fed at pos, where
                         \* the three feeds of the loop body are taken apart

vars == <<input, pos, pc, candidate_machine, css_variable_machine,
          candidate_machines, in_flight_spans, extracted, obs, unit, actual,
          output, failed_pop, fed_machines>>

----------------------------------------------------------------------------
(* Bytes *)

NUL == "nul"
Backtick == "backtick"

Chars(s) == [i \in 1..Len(s) |-> SubSeq(s, i, i)]

Lower == {"a","b","c","d","e","f","g","h","i","j","k","l","m",
          "n","o","p","q","r","s","t","u","v","w","x","y","z"}
Upper == {"A","B","C","D","E","F","G","H","I","J","K","L","M",
          "N","O","P","Q","R","S","T","U","V","W","X","Y","Z"}
Digit == {"0","1","2","3","4","5","6","7","8","9"}
Alpha == Lower \cup Upper
AlphaNum == Alpha \cup Digit

is_ascii_whitespace(b) == b \in {" ", "\t", "\n", "\r", "\f"}

----------------------------------------------------------------------------
(* Option<usize> *)

None == <<>>
Some(v) == <<v>>

----------------------------------------------------------------------------
(* Cursor *)

ByteAt(in, p) == IF p >= 0 /\ p < Len(in) THEN in[p + 1] ELSE NUL

Cursor(in, p) ==
    [input  |-> in,
     pos    |-> p,
     prev   |-> ByteAt(in, p - 1),
     curr   |-> ByteAt(in, p),
     next   |-> ByteAt(in, p + 1),
     at_end |-> p + 1 >= Len(in)]

----------------------------------------------------------------------------
(* Span, MachineState and the Machine trait's helpers *)

Span(start, end) == [start |-> start, end |-> end]

slice(span, in) == SubSeq(in, span.start + 1, span.end + 1)

Idle == [k |-> "Idle", span |-> Span(0, 0)]
Parsing == [k |-> "Parsing", span |-> Span(0, 0)]
Done(span) == [k |-> "Done", span |-> span]
NotFed == [k |-> "NotFed", span |-> Span(0, 0)]

IsDone(state) == state.k = "Done"

Ret(m, r) == [m |-> m, r |-> r]

\* Machine::restart: reset to the default, report Idle
restart(default) == Ret(default, Idle)

\* done, were its span to leave out the byte at start
done_after_start(default, start, cursor) ==
    Ret(default, Done(Span(start + 1, cursor.pos)))

\* done, were its span to end at the byte before the cursor
done_before_cursor(default, start, cursor) ==
    Ret(default, Done(Span(start, cursor.pos - 1)))

\* Machine::done: reset to the default, report Done(start ..= cursor.pos)
done(default, start, cursor) == Ret(default, Done(Span(start, cursor.pos)))

\* the prologue, were it to skip the byte at skip_until_pos as well
skipping_through(self, cursor) ==
    self.skip_until_pos # None /\ cursor.pos <= self.skip_until_pos[1]

\* The skip_until_pos prologue every machine that has the field starts with
Skipping(self, cursor) ==
    self.skip_until_pos # None /\ cursor.pos < self.skip_until_pos[1]

ClearSkip(self) == [self EXCEPT !.skip_until_pos = None]

----------------------------------------------------------------------------
(* StringMachine *)

StringClass(b) ==
    IF b = "\"" THEN "DoubleQuote"
    ELSE IF b = "'" THEN "SingleQuote"
    ELSE IF b = Backtick THEN "Backtick"
    ELSE IF b = "\\" THEN "Escape"
    ELSE IF is_ascii_whitespace(b) THEN "Whitespace"
    ELSE IF b = NUL THEN "End"
    ELSE "Other"

StringMachine_default ==
    [start_pos |-> 0, skip_until_pos |-> None, state |-> "Idle"]

\* the Parsing arms, were the literal closed by a quote of any kind
parsing_any_quote(self, cursor, quote) ==
    LET class_curr == StringClass(cursor.curr)
    IN  IF class_curr = "Escape" /\ is_ascii_whitespace(cursor.next)
            THEN restart(StringMachine_default)
        ELSE IF class_curr = "Escape" /\ ~cursor.at_end
            THEN Ret([self EXCEPT !.skip_until_pos = Some(cursor.pos + 2)], Parsing)
        ELSE IF class_curr \in {"SingleQuote", "DoubleQuote", "Backtick"}
            THEN done(StringMachine_default, self.start_pos, cursor)
        ELSE IF class_curr = "Whitespace"
            THEN restart(StringMachine_default)
        ELSE Ret(self, Parsing)

\* The three Parsing(QuoteKind) arms differ only in the class that ends the string
StringMachine_parsing(self, cursor, quote) ==
    LET class_curr == StringClass(cursor.curr)
        class_next == StringClass(cursor.next)
    IN  IF class_curr = "Escape" /\ class_next = "Whitespace"
            THEN restart(StringMachine_default)
        ELSE IF class_curr = "Escape" /\ ~cursor.at_end
            THEN Ret([self EXCEPT !.skip_until_pos = Some(cursor.pos + 2)], Parsing)
        ELSE IF class_curr = quote
            THEN done(StringMachine_default, self.start_pos, cursor)
        ELSE IF class_curr = "Whitespace"
            THEN restart(StringMachine_default)
        ELSE Ret(self, Parsing)

StringMachine_next(self0, cursor) ==
    IF Skipping(self0, cursor) THEN Ret(self0, Parsing)
    ELSE
    LET self == ClearSkip(self0)
        class_curr == StringClass(cursor.curr)
    IN  IF self.state = "Idle" THEN
            IF class_curr = "SingleQuote" THEN
                Ret([self EXCEPT !.start_pos = cursor.pos,
                                 !.state = "Parsing(Single)"], Parsing)
            ELSE IF class_curr = "DoubleQuote" THEN
                Ret([self EXCEPT !.start_pos = cursor.pos,
                                 !.state = "Parsing(Double)"], Parsing)
            ELSE IF class_curr = "Backtick" THEN
                Ret([self EXCEPT !.start_pos = cursor.pos,
                                 !.state = "Parsing(Backtick)"], Parsing)
            ELSE Ret(self, Idle)
        ELSE IF self.state = "Parsing(Single)" THEN
            StringMachine_parsing(self, cursor, "SingleQuote")
        ELSE IF self.state = "Parsing(Double)" THEN
            StringMachine_parsing(self, cursor, "DoubleQuote")
        ELSE
            StringMachine_parsing(self, cursor, "Backtick")

----------------------------------------------------------------------------
(* CssVariableMachine *)

\* the class table, were every other byte an allowed character
css_class_lax(b) ==
    IF b = "-" THEN "Dash"
    ELSE IF b = "\\" THEN "Escape"
    ELSE IF is_ascii_whitespace(b) THEN "Whitespace"
    ELSE IF b = NUL THEN "End"
    ELSE "AllowedCharacter"

CssClass(b) ==
    IF b = "-" THEN "Dash"
    ELSE IF b = "\\" THEN "Escape"
    ELSE IF is_ascii_whitespace(b) THEN "Whitespace"
    ELSE IF b = "_" \/ b \in AlphaNum THEN "AllowedCharacter"
    ELSE IF b = NUL THEN "End"
    ELSE "Other"

CssVariableMachine_default ==
    [start_pos |-> 0, skip_until_pos |-> None, state |-> "Idle"]

\* the escape arms, were escaped whitespace skipped like any escaped byte
escape_any(self, cursor, class_next) ==
    IF ~cursor.at_end THEN
        Ret([self EXCEPT !.skip_until_pos = Some(cursor.pos + 2)], Parsing)
    ELSE restart(CssVariableMachine_default)

\* State::Parsing at an escape: (Class::Escape, Class::Whitespace) restarts,
\* (Class::Escape, _) if !cursor.at_end skips ahead, anything else restarts
CssVariableMachine_escape(self, cursor, class_next) ==
    IF class_next = "Whitespace" THEN restart(CssVariableMachine_default)
    ELSE IF ~cursor.at_end THEN
        Ret([self EXCEPT !.skip_until_pos = Some(cursor.pos + 2)], Parsing)
    ELSE restart(CssVariableMachine_default)

CssVariableMachine_next(self0, cursor) ==
    IF Skipping(self0, cursor) THEN Ret(self0, Parsing)
    ELSE
    LET self == ClearSkip(self0)
        class_curr == CssClass(cursor.curr)
        class_next == CssClass(cursor.next)
        ident == class_curr \in {"AllowedCharacter", "Dash"}
    IN  IF self.state = "Idle" THEN
            IF class_curr = "Dash" /\ class_next = "Dash" THEN
                Ret([self EXCEPT !.start_pos = cursor.pos,
                                 !.skip_until_pos = Some(cursor.pos + 2),
                                 !.state = "Parsing"], Parsing)
            ELSE Ret(self, Idle)
        ELSE \* State::Parsing
            IF ident /\ class_next = "End" THEN
                done(CssVariableMachine_default, self.start_pos, cursor)
            ELSE IF ident /\ class_next \in {"AllowedCharacter", "Dash", "Escape"} THEN
                Ret(self, Parsing)
            ELSE IF ident THEN
                done(CssVariableMachine_default, self.start_pos, cursor)
            ELSE IF class_curr = "Escape" THEN
                CssVariableMachine_escape(self, cursor, class_next)
            ELSE restart(CssVariableMachine_default)

----------------------------------------------------------------------------
(* ArbitraryValueMachine *)

ArbClass(b) ==
    IF b = "\\" THEN "Escape"
    ELSE IF b = "(" THEN "OpenParen"
    ELSE IF b = ")" THEN "CloseParen"
    ELSE IF b = "[" THEN "OpenBracket"
    ELSE IF b = "]" THEN "CloseBracket"
    ELSE IF b = "{" THEN "OpenCurly"
    ELSE IF b = "}" THEN "CloseCurly"
    ELSE IF b \in {"\"", "'", Backtick} THEN "Quote"
    ELSE IF is_ascii_whitespace(b) THEN "Whitespace"
    ELSE "Other"

\* Vec<u8> helpers for the bracket stacks
push(stack, b) == Append(stack, b)
pop(stack) == SubSeq(stack, 1, Len(stack) - 1)
last(stack) == stack[Len(stack)]

ArbitraryValueMachine_default ==
    [start_pos |-> 0, bracket_stack |-> <<>>, skip_until_pos |-> None,
     state |-> "Idle", string_machine |-> StringMachine_default]

\* State::ParsingString: s is what string_machine.next(cursor) returned
ArbitraryValueMachine_parsing_string(self, s) ==
    IF s.r.k = "Idle" THEN restart(ArbitraryValueMachine_default)
    ELSE IF s.r.k = "Parsing" THEN Ret([self EXCEPT !.string_machine = s.m], Parsing)
    ELSE Ret([self EXCEPT !.string_machine = s.m, !.state = "Parsing"], Parsing)

ArbitraryValueMachine_next(self0, cursor) ==
    IF Skipping(self0, cursor) THEN Ret(self0, Parsing)
    ELSE
    LET self == ClearSkip(self0)
        class_curr == ArbClass(cursor.curr)
        class_next == ArbClass(cursor.next)
    IN  IF self.state = "Idle" THEN
            IF class_curr = "OpenBracket" THEN
                Ret([self EXCEPT !.start_pos = cursor.pos, !.state = "Parsing"], Parsing)
            ELSE Ret(self, Idle)
        ELSE IF self.state = "Parsing" THEN
            \* the escape arm comes first in the source, before escaped whitespace
            IF class_curr = "Escape" /\ ~cursor.at_end THEN
                Ret([self EXCEPT !.skip_until_pos = Some(cursor.pos + 2)], Parsing)
            ELSE IF class_curr = "Escape" /\ class_next = "Whitespace" THEN
                restart(ArbitraryValueMachine_default)
            ELSE IF class_curr = "OpenParen" THEN
                Ret([self EXCEPT !.bracket_stack = push(@, ")")], Parsing)
            ELSE IF class_curr = "OpenBracket" THEN
                Ret([self EXCEPT !.bracket_stack = push(@, "]")], Parsing)
            ELSE IF class_curr = "OpenCurly" THEN
                Ret([self EXCEPT !.bracket_stack = push(@, "}")], Parsing)
            ELSE IF class_curr \in {"CloseParen", "CloseBracket", "CloseCurly"}
                    /\ self.bracket_stack # <<>> THEN
                IF cursor.curr = last(self.bracket_stack)
                THEN Ret([self EXCEPT !.bracket_stack = pop(@)], Parsing)
                ELSE restart(ArbitraryValueMachine_default)
            ELSE IF class_curr = "CloseBracket" /\ self.bracket_stack = <<>>
                    /\ self.start_pos + 1 # cursor.pos THEN
                done(ArbitraryValueMachine_default, self.start_pos, cursor)
            ELSE IF class_curr = "Quote" THEN
                \* parse_string: feed the string machine, result dropped
                Ret([self EXCEPT
                        !.string_machine = StringMachine_next(@, cursor).m,
                        !.state = "ParsingString"], Parsing)
            ELSE IF class_curr = "Whitespace" THEN
                restart(ArbitraryValueMachine_default)
            ELSE Ret(self, Parsing)
        ELSE \* State::ParsingString
            ArbitraryValueMachine_parsing_string(
                self, StringMachine_next(self.string_machine, cursor))

----------------------------------------------------------------------------
(* ArbitraryVariableMachine *)

ArbitraryVariableMachine_default ==
    [start_pos |-> 0, bracket_stack |-> <<>>, skip_until_pos |-> None,
     state |-> "Idle", string_machine |-> StringMachine_default,
     css_variable_machine |-> CssVariableMachine_default]

\* State::Parsing: c is what css_variable_machine.next(cursor) returned
ArbitraryVariableMachine_parsing(self, cursor, c) ==
    IF c.r.k = "Idle" THEN restart(ArbitraryVariableMachine_default)
    ELSE IF c.r.k = "Parsing" THEN
        Ret([self EXCEPT !.css_variable_machine = c.m], Parsing)
    ELSE IF cursor.next = "," THEN
        Ret([self EXCEPT !.css_variable_machine = c.m,
                         !.state = "ParsingFallback"], Parsing)
    ELSE
        Ret([self EXCEPT !.css_variable_machine = c.m,
                         !.state = "ParsingEnd"], Parsing)

\* State::ParsingString: s is what string_machine.next(cursor) returned
ArbitraryVariableMachine_parsing_string(self, s) ==
    IF s.r.k = "Idle" THEN restart(ArbitraryVariableMachine_default)
    ELSE IF s.r.k = "Parsing" THEN Ret([self EXCEPT !.string_machine = s.m], Parsing)
    ELSE Ret([self EXCEPT !.string_machine = s.m,
                          !.state = "ParsingFallback"], Parsing)

ArbitraryVariableMachine_next(self0, cursor) ==
    IF Skipping(self0, cursor) THEN Ret(self0, Parsing)
    ELSE
    LET self == ClearSkip(self0)
        curr == cursor.curr
    IN  IF self.state = "Idle" THEN
            IF curr = "(" /\ cursor.next = "-" THEN
                Ret([self EXCEPT !.start_pos = cursor.pos, !.state = "Parsing"], Parsing)
            ELSE Ret(self, Idle)
        ELSE IF self.state = "Parsing" THEN
            ArbitraryVariableMachine_parsing(
                self, cursor, CssVariableMachine_next(self.css_variable_machine, cursor))
        ELSE IF self.state = "ParsingFallback" THEN
            IF curr = "\\" /\ ~cursor.at_end THEN
                Ret([self EXCEPT !.skip_until_pos = Some(cursor.pos + 2)], Parsing)
            ELSE IF curr = "\\" /\ is_ascii_whitespace(cursor.next) THEN
                restart(ArbitraryVariableMachine_default)
            ELSE IF curr = "(" THEN
                Ret([self EXCEPT !.bracket_stack = push(@, ")")], Parsing)
            ELSE IF curr = "[" THEN
                Ret([self EXCEPT !.bracket_stack = push(@, "]")], Parsing)
            ELSE IF curr = "{" THEN
                Ret([self EXCEPT !.bracket_stack = push(@, "}")], Parsing)
            ELSE IF curr \in {")", "]", "}"} /\ self.bracket_stack # <<>> THEN
                IF curr = last(self.bracket_stack)
                THEN Ret([self EXCEPT !.bracket_stack = pop(@)], Parsing)
                ELSE restart(ArbitraryVariableMachine_default)
            ELSE IF curr = ")" THEN
                done(ArbitraryVariableMachine_default, self.start_pos, cursor)
            ELSE IF curr \in {"\"", "'", Backtick} THEN
                Ret([self EXCEPT
                        !.string_machine = StringMachine_next(@, cursor).m,
                        !.state = "ParsingString"], Parsing)
            ELSE IF curr = ":" /\ self.bracket_stack = <<>> THEN
                restart(ArbitraryVariableMachine_default)
            ELSE IF is_ascii_whitespace(curr) THEN
                restart(ArbitraryVariableMachine_default)
            ELSE Ret(self, Parsing)
        ELSE IF self.state = "ParsingString" THEN
            ArbitraryVariableMachine_parsing_string(
                self, StringMachine_next(self.string_machine, cursor))
        ELSE \* State::ParsingEnd
            IF curr = ")" THEN
                done(ArbitraryVariableMachine_default, self.start_pos, cursor)
            ELSE restart(ArbitraryVariableMachine_default)

----------------------------------------------------------------------------
(* ArbitraryPropertyMachine *)

ArbitraryPropertyMachine_default ==
    [start_pos |-> 0, bracket_stack |-> <<>>, skip_until_pos |-> None,
     state |-> "Idle", css_variable_machine |-> CssVariableMachine_default,
     string_machine |-> StringMachine_default]

\* State::ParsingPropertyVariable: c is what css_variable_machine.next(cursor) returned
ArbitraryPropertyMachine_parsing_property_variable(self, cursor, c) ==
    IF c.r.k = "Idle" THEN restart(ArbitraryPropertyMachine_default)
    ELSE IF c.r.k = "Parsing" THEN
        Ret([self EXCEPT !.css_variable_machine = c.m], Parsing)
    ELSE IF cursor.next = ":" THEN
        Ret([self EXCEPT !.css_variable_machine = c.m,
                         !.skip_until_pos = Some(cursor.pos + 2),
                         !.state = "ParsingValue"], Parsing)
    ELSE restart(ArbitraryPropertyMachine_default)

\* State::ParsingString: s is what string_machine.next(cursor) returned
ArbitraryPropertyMachine_parsing_string(self, s) ==
    IF s.r.k = "Idle" THEN restart(ArbitraryPropertyMachine_default)
    ELSE IF s.r.k = "Parsing" THEN Ret([self EXCEPT !.string_machine = s.m], Parsing)
    ELSE Ret([self EXCEPT !.string_machine = s.m, !.state = "ParsingValue"], Parsing)

ArbitraryPropertyMachine_next(self0, cursor) ==
    IF Skipping(self0, cursor) THEN Ret(self0, Parsing)
    ELSE
    LET self == ClearSkip(self0)
        curr == cursor.curr
    IN  IF self.state = "Idle" THEN
            IF curr = "[" THEN
                Ret([self EXCEPT !.start_pos = cursor.pos,
                                 !.state = "ParsingProperty"], Parsing)
            ELSE Ret(self, Idle)
        ELSE IF self.state = "ParsingProperty" THEN
            IF curr = "-" /\ cursor.next = "-" THEN
                \* parse_property_variable: feed the CSS variable machine
                Ret([self EXCEPT
                        !.css_variable_machine = CssVariableMachine_next(@, cursor).m,
                        !.state = "ParsingPropertyVariable"], Parsing)
            ELSE IF curr \in Alpha \/ curr = "-" THEN Ret(self, Parsing)
            ELSE IF curr = ":" /\ cursor.pos > self.start_pos + 1 THEN
                Ret([self EXCEPT !.state = "ParsingValue"], Parsing)
            ELSE restart(ArbitraryPropertyMachine_default)
        ELSE IF self.state = "ParsingPropertyVariable" THEN
            ArbitraryPropertyMachine_parsing_property_variable(
                self, cursor, CssVariableMachine_next(self.css_variable_machine, cursor))
        ELSE IF self.state = "ParsingValue" THEN
            IF curr = "\\" /\ ~cursor.at_end THEN
                Ret([self EXCEPT !.skip_until_pos = Some(cursor.pos + 2)], Parsing)
            ELSE IF curr = "\\" /\ is_ascii_whitespace(cursor.next) THEN
                restart(ArbitraryPropertyMachine_default)
            ELSE IF curr = "(" THEN
                Ret([self EXCEPT !.bracket_stack = push(@, ")")], Parsing)
            ELSE IF curr = "[" THEN
                Ret([self EXCEPT !.bracket_stack = push(@, "]")], Parsing)
            ELSE IF curr = "{" THEN
                Ret([self EXCEPT !.bracket_stack = push(@, "}")], Parsing)
            ELSE IF curr \in {")", "]", "}"} /\ self.bracket_stack # <<>> THEN
                IF curr = last(self.bracket_stack)
                THEN Ret([self EXCEPT !.bracket_stack = pop(@)], Parsing)
                ELSE restart(ArbitraryPropertyMachine_default)
            ELSE IF curr = "]" /\ self.bracket_stack = <<>>
                    /\ self.start_pos + 1 # cursor.pos THEN
                done(ArbitraryPropertyMachine_default, self.start_pos, cursor)
            ELSE IF curr \in {"\"", "'", Backtick} THEN
                Ret([self EXCEPT
                        !.string_machine = StringMachine_next(@, cursor).m,
                        !.state = "ParsingString"], Parsing)
            ELSE IF curr = ":" /\ self.bracket_stack = <<>> THEN
                restart(ArbitraryPropertyMachine_default)
            ELSE IF is_ascii_whitespace(curr) THEN
                restart(ArbitraryPropertyMachine_default)
            ELSE Ret(self, Parsing)
        ELSE \* State::ParsingString
            ArbitraryPropertyMachine_parsing_string(
                self, StringMachine_next(self.string_machine, cursor))

----------------------------------------------------------------------------
(* ModifierMachine *)

ModifierMachine_default ==
    [start_pos |-> 0, skip_until_pos |-> None, state |-> "Idle",
     arbitrary_value_machine |-> ArbitraryValueMachine_default,
     css_variable_machine |-> CssVariableMachine_default]

ModifierNamedChar(b) == b \in AlphaNum \/ b \in {"-", "_", "."}

\* State::ParsingArbitraryValue: a is what arbitrary_value_machine.next(cursor) returned
ModifierMachine_parsing_arbitrary_value(self, cursor, a) ==
    IF a.r.k = "Idle" THEN restart(ModifierMachine_default)
    ELSE IF a.r.k = "Parsing" THEN
        Ret([self EXCEPT !.arbitrary_value_machine = a.m], Parsing)
    ELSE done(ModifierMachine_default, self.start_pos, cursor)

\* State::ParsingArbitraryVariable(Inside): c is what css_variable_machine.next(cursor)
\* returned; Done leads to parse_arbitrary_variable_end
ModifierMachine_parsing_arbitrary_variable(self, c) ==
    IF c.r.k = "Idle" THEN restart(ModifierMachine_default)
    ELSE IF c.r.k = "Parsing" THEN
        Ret([self EXCEPT !.css_variable_machine = c.m], Parsing)
    ELSE
        Ret([self EXCEPT !.css_variable_machine = c.m,
                         !.state = "ParsingArbitraryVariable(End)"], Parsing)

ModifierMachine_next(self0, cursor) ==
    IF Skipping(self0, cursor) THEN Ret(self0, Parsing)
    ELSE
    LET self == ClearSkip(self0)
        curr == cursor.curr
        next == cursor.next
    IN  IF self.state = "Idle" THEN
            IF curr = "/" /\ next = "[" THEN
                Ret([self EXCEPT !.start_pos = cursor.pos,
                                 !.state = "ParsingArbitraryValue"], Parsing)
            ELSE IF curr = "/" /\ next = "(" THEN
                Ret([self EXCEPT !.start_pos = cursor.pos,
                                 !.skip_until_pos = Some(cursor.pos + 2),
                                 !.state = "ParsingArbitraryVariable(Inside)"], Parsing)
            ELSE IF curr = "/" /\ next \in AlphaNum THEN
                Ret([self EXCEPT !.start_pos = cursor.pos,
                                 !.state = "ParsingNamed"], Parsing)
            ELSE Ret(self, Idle)
        ELSE IF self.state = "ParsingNamed" THEN
            IF ModifierNamedChar(curr) /\ ModifierNamedChar(next) THEN Ret(self, Parsing)
            ELSE IF ModifierNamedChar(curr) THEN
                done(ModifierMachine_default, self.start_pos, cursor)
            ELSE restart(ModifierMachine_default)
        ELSE IF self.state = "ParsingArbitraryValue" THEN
            ModifierMachine_parsing_arbitrary_value(
                self, cursor,
                ArbitraryValueMachine_next(self.arbitrary_value_machine, cursor))
        ELSE IF self.state = "ParsingArbitraryVariable(Inside)" THEN
            ModifierMachine_parsing_arbitrary_variable(
                self, CssVariableMachine_next(self.css_variable_machine, cursor))
        ELSE \* State::ParsingArbitraryVariable(End)
            IF curr = ")" THEN done(ModifierMachine_default, self.start_pos, cursor)
            ELSE restart(ModifierMachine_default)

----------------------------------------------------------------------------
(* NamedUtilityMachine *)

NamedUtilityMachine_default ==
    [start_pos |-> 0, skip_until_pos |-> None, state |-> "Idle",
     arbitrary_value_machine |-> ArbitraryValueMachine_default,
     css_variable_machine |-> CssVariableMachine_default]

\* b'-' | b'_' | b'.' | b'a'..=b'z' | b'A'..=b'Z' | b'0'..=b'9'
NamedUtilityChar(b) == b \in AlphaNum \/ b \in {"-", "_", "."}

\* State::Parsing of NamedUtilityMachine::next
NamedUtilityMachine_parsing(self, cursor) ==
    LET curr == cursor.curr
        next == cursor.next
    IN  IF curr = "-" /\ next = "[" THEN
            Ret([self EXCEPT !.state = "ParsingArbitraryValue"], Parsing)
        ELSE IF curr = "-" /\ next = "(" THEN
            Ret([self EXCEPT !.skip_until_pos = Some(cursor.pos + 2),
                             !.state = "ParsingArbitraryVariable(Inside)"], Parsing)
        ELSE IF curr = "-" /\ NamedUtilityChar(next) THEN Ret(self, Parsing)
        ELSE IF curr \in AlphaNum /\ cursor.at_end THEN
            done(NamedUtilityMachine_default, self.start_pos, cursor)
        ELSE IF (curr \in AlphaNum \/ curr \in {"_", "."}) /\ ~NamedUtilityChar(next) THEN
            done(NamedUtilityMachine_default, self.start_pos, cursor)
        ELSE IF curr \in AlphaNum \/ curr \in {"_", "."} THEN Ret(self, Parsing)
        ELSE restart(NamedUtilityMachine_default)

\* State::ParsingArbitraryValue: a is what arbitrary_value_machine.next(cursor) returned
NamedUtilityMachine_parsing_arbitrary_value(self, cursor, a) ==
    IF a.r.k = "Idle" THEN restart(NamedUtilityMachine_default)
    ELSE IF a.r.k = "Parsing" THEN
        Ret([self EXCEPT !.arbitrary_value_machine = a.m], Parsing)
    ELSE done(NamedUtilityMachine_default, self.start_pos, cursor)

\* State::ParsingArbitraryVariable(Inside): c is what css_variable_machine.next(cursor)
\* returned; Done leads to parse_arbitrary_variable_end
NamedUtilityMachine_parsing_arbitrary_variable(self, c) ==
    IF c.r.k = "Idle" THEN restart(NamedUtilityMachine_default)
    ELSE IF c.r.k = "Parsing" THEN
        Ret([self EXCEPT !.css_variable_machine = c.m], Parsing)
    ELSE
        Ret([self EXCEPT !.css_variable_machine = c.m,
                         !.state = "ParsingArbitraryVariable(End)"], Parsing)

NamedUtilityMachine_next(self0, cursor) ==
    IF Skipping(self0, cursor) THEN Ret(self0, Parsing)
    ELSE
    LET self == ClearSkip(self0)
        curr == cursor.curr
        next == cursor.next
    IN  IF self.state = "Idle" THEN
            IF curr = "-" /\ next = "-" THEN restart(NamedUtilityMachine_default)
            ELSE IF curr = "/" THEN restart(NamedUtilityMachine_default)
            ELSE IF curr = "<" THEN restart(NamedUtilityMachine_default)
            ELSE IF curr \in Lower /\ (is_ascii_whitespace(next) \/ cursor.at_end) THEN
                done(NamedUtilityMachine_default, cursor.pos, cursor)
            ELSE IF curr \in Lower \/ curr = "@" THEN
                Ret([self EXCEPT !.start_pos = cursor.pos, !.state = "Parsing"], Parsing)
            ELSE IF curr = "-" /\ next \in Alpha THEN
                Ret([self EXCEPT !.start_pos = cursor.pos, !.state = "Parsing"], Parsing)
            ELSE Ret(self, Idle)
        ELSE IF self.state = "Parsing" THEN
            NamedUtilityMachine_parsing(self, cursor)
        ELSE IF self.state = "ParsingArbitraryValue" THEN
            NamedUtilityMachine_parsing_arbitrary_value(
                self, cursor,
                ArbitraryValueMachine_next(self.arbitrary_value_machine, cursor))
        ELSE IF self.state = "ParsingArbitraryVariable(Inside)" THEN
            NamedUtilityMachine_parsing_arbitrary_variable(
                self, CssVariableMachine_next(self.css_variable_machine, cursor))
        ELSE \* State::ParsingArbitraryVariable(End)
            IF curr = ")" THEN done(NamedUtilityMachine_default, self.start_pos, cursor)
            ELSE restart(NamedUtilityMachine_default)

----------------------------------------------------------------------------
(* NamedVariantMachine *)

NamedVariantMachine_default ==
    [start_pos |-> 0, state |-> "Idle",
     arbitrary_variable_machine |-> ArbitraryVariableMachine_default,
     arbitrary_value_machine |-> ArbitraryValueMachine_default,
     modifier_machine |-> ModifierMachine_default]

\* the three places that branch on cursor.next after a sub-machine is Done
NamedVariantMachine_after(self, cursor, allow_modifier) ==
    IF allow_modifier /\ cursor.next = "/" THEN
        Ret([self EXCEPT !.state = "ParsingModifier"], Parsing)
    ELSE IF cursor.next = ":" THEN
        Ret([self EXCEPT !.state = "ParseEnd"], Parsing)
    ELSE restart(NamedVariantMachine_default)

\* match <field>.next(cursor) { Idle => restart, Parsing => Parsing,
\* Done(_) => match cursor.next }: s is what the sub-machine kept in field returned
NamedVariantMachine_fed(self, cursor, field, s, allow_modifier) ==
    IF s.r.k = "Idle" THEN restart(NamedVariantMachine_default)
    ELSE IF s.r.k = "Parsing" THEN Ret([self EXCEPT ![field] = s.m], Parsing)
    ELSE NamedVariantMachine_after([self EXCEPT ![field] = s.m], cursor, allow_modifier)

NamedVariantMachine_next(self, cursor) ==
    LET curr == cursor.curr
        next == cursor.next
    IN  IF self.state = "Idle" THEN
            \* parse_end: start_pos is not set on this arm
            IF (curr \in Lower \/ curr \in {"*", "-", "_"}) /\ next = ":" THEN
                Ret([self EXCEPT !.state = "ParseEnd"], Parsing)
            ELSE IF curr \in Lower \/ curr \in Digit \/ curr \in {"*", "-", "_", "@"} THEN
                Ret([self EXCEPT !.start_pos = cursor.pos, !.state = "Parsing"], Parsing)
            ELSE Ret(self, Idle)
        ELSE IF self.state = "Parsing" THEN
            IF curr = "-" /\ next = "[" THEN
                Ret([self EXCEPT !.state = "ParsingArbitraryValue"], Parsing)
            ELSE IF curr = "-" /\ next = "(" THEN
                Ret([self EXCEPT !.state = "ParsingArbitraryVariable"], Parsing)
            ELSE IF curr \in {"-", "_"} /\ (next \in {"-", "_"} \/ next \in AlphaNum) THEN
                Ret(self, Parsing)
            ELSE IF curr \in AlphaNum \/ curr \in {"_", "*"} THEN Ret(self, Parsing)
            ELSE IF curr = "/" THEN
                Ret([self EXCEPT
                        !.modifier_machine = ModifierMachine_next(@, cursor).m,
                        !.state = "ParsingModifier"], Parsing)
            ELSE IF curr = ":" THEN
                done(NamedVariantMachine_default, self.start_pos, cursor)
            ELSE restart(NamedVariantMachine_default)
        ELSE IF self.state = "ParsingArbitraryValue" THEN
            NamedVariantMachine_fed(
                self, cursor, "arbitrary_value_machine",
                ArbitraryValueMachine_next(self.arbitrary_value_machine, cursor), TRUE)
        ELSE IF self.state = "ParsingArbitraryVariable" THEN
            NamedVariantMachine_fed(
                self, cursor, "arbitrary_variable_machine",
                ArbitraryVariableMachine_next(self.arbitrary_variable_machine, cursor),
                TRUE)
        ELSE IF self.state = "ParsingModifier" THEN
            NamedVariantMachine_fed(
                self, cursor, "modifier_machine",
                ModifierMachine_next(self.modifier_machine, cursor), FALSE)
        ELSE \* State::ParseEnd
            IF curr = ":" THEN done(NamedVariantMachine_default, self.start_pos, cursor)
            ELSE restart(NamedVariantMachine_default)

----------------------------------------------------------------------------
(* UtilityMachine *)

UtilityMachine_default ==
    [start_pos |-> 0, state |-> "Idle",
     arbitrary_property_machine |-> ArbitraryPropertyMachine_default,
     named_utility_machine |-> NamedUtilityMachine_default,
     modifier_machine |-> ModifierMachine_default]

UtilityMachine_parse_arbitrary_property(self, cursor) ==
    Ret([self EXCEPT !.start_pos = cursor.pos,
                     !.state = "ParsingArbitraryProperty"], Parsing)

\* sets the state, then returns n, what named_utility_machine.next(cursor) returned
UtilityMachine_parse_named(self, cursor, n) ==
    Ret([self EXCEPT !.start_pos = cursor.pos,
                     !.state = "ParsingNamedUtility",
                     !.named_utility_machine = n.m], n.r)

\* what follows a completed named utility or arbitrary property
UtilityMachine_after(self, cursor) ==
    IF cursor.next = "/" THEN Ret([self EXCEPT !.state = "ParsingModifier"], Parsing)
    ELSE IF cursor.next = "!" THEN Ret([self EXCEPT !.state = "ParsingImportant"], Parsing)
    ELSE done(UtilityMachine_default, self.start_pos, cursor)

\* a modifier may be followed by a modifier
after_stacked_modifier(self, cursor) ==
    IF cursor.next = "!" THEN Ret([self EXCEPT !.state = "ParsingImportant"], Parsing)
    ELSE done(UtilityMachine_default, self.start_pos, cursor)

\* what follows a completed modifier
UtilityMachine_after_modifier(self, cursor) ==
    IF cursor.next = "/" THEN restart(UtilityMachine_default)
    ELSE IF cursor.next = "!" THEN Ret([self EXCEPT !.state = "ParsingImportant"], Parsing)
    ELSE done(UtilityMachine_default, self.start_pos, cursor)

\* match <field>.next(cursor) { Idle => restart, Parsing => Parsing,
\* Done(_) => match cursor.next }: s is what the sub-machine kept in field returned
UtilityMachine_fed(self, cursor, field, s) ==
    IF s.r.k = "Idle" THEN restart(UtilityMachine_default)
    ELSE IF s.r.k = "Parsing" THEN Ret([self EXCEPT ![field] = s.m], Parsing)
    ELSE IF field = "modifier_machine"
        THEN UtilityMachine_after_modifier([self EXCEPT ![field] = s.m], cursor)
    ELSE UtilityMachine_after([self EXCEPT ![field] = s.m], cursor)

\* the `!` is accepted whatever the utility began with
parsing_important_unchecked(self, cursor) ==
    IF cursor.curr = "!" THEN done(UtilityMachine_default, self.start_pos, cursor)
    ELSE restart(UtilityMachine_default)

\* ParsingImportant, were the span to begin after the `!`
parsing_important_after_cursor(self, cursor) ==
    IF cursor.curr = "!" /\ ByteAt(cursor.input, self.start_pos) # "!" THEN
        done(UtilityMachine_default, cursor.pos + 1, cursor)
    ELSE restart(UtilityMachine_default)

\* State::ParsingImportant: only the `!` is valid, if we didn't start with `!`
UtilityMachine_parsing_important(self, cursor) ==
    IF cursor.curr = "!" /\ ByteAt(cursor.input, self.start_pos) # "!" THEN
        done(UtilityMachine_default, self.start_pos, cursor)
    ELSE restart(UtilityMachine_default)

UtilityMachine_next(self, cursor) ==
    LET curr == cursor.curr
        next == cursor.next
    IN  IF self.state = "Idle" THEN
            IF curr = "!" /\ next = "[" THEN
                UtilityMachine_parse_arbitrary_property(self, cursor)
            ELSE IF curr = "[" THEN
                UtilityMachine_parse_arbitrary_property(
                    [self EXCEPT !.arbitrary_property_machine =
                                    ArbitraryPropertyMachine_next(@, cursor).m], cursor)
            \* the three arms that call parse_named: a single character utility, an
            \* important utility, and the start of a named utility
            ELSE IF \/ curr \in Lower /\ (is_ascii_whitespace(next) \/ cursor.at_end)
                    \/ curr = "!" /\ (next \in Lower \/ next = "@")
                    \/ curr = "-" \/ curr \in Lower THEN
                UtilityMachine_parse_named(
                    self, cursor,
                    NamedUtilityMachine_next(self.named_utility_machine, cursor))
            ELSE Ret(self, Idle)
        ELSE IF self.state = "ParsingNamedUtility" THEN
            UtilityMachine_fed(
                self, cursor, "named_utility_machine",
                NamedUtilityMachine_next(self.named_utility_machine, cursor))
        ELSE IF self.state = "ParsingArbitraryProperty" THEN
            UtilityMachine_fed(
                self, cursor, "arbitrary_property_machine",
                ArbitraryPropertyMachine_next(self.arbitrary_property_machine, cursor))
        ELSE IF self.state = "ParsingModifier" THEN
            UtilityMachine_fed(
                self, cursor, "modifier_machine",
                ModifierMachine_next(self.modifier_machine, cursor))
        ELSE UtilityMachine_parsing_important(self, cursor)

----------------------------------------------------------------------------
(* VariantMachine: its named variants are parsed by a NamedUtilityMachine *)

VariantMachine_default ==
    [start_pos |-> 0, skip_until_pos |-> None, state |-> "Idle",
     arbitrary_value_machine |-> ArbitraryValueMachine_default,
     named_utility_machine |-> NamedUtilityMachine_default,
     modifier_machine |-> ModifierMachine_default]

\* Idle: the bytes that may start a named variant
VariantMachine_named_start(curr) == curr \in Lower \/ curr \in {"-", "_", "@"}

\* the places that branch on cursor.next after a sub-machine is Done
VariantMachine_after(self, cursor, allow_modifier) ==
    IF allow_modifier /\ cursor.next = "/" THEN
        Ret([self EXCEPT !.state = "ParsingModifier"], Parsing)
    ELSE IF cursor.next = ":" THEN
        Ret([self EXCEPT !.state = "ParseEnd"], Parsing)
    ELSE restart(VariantMachine_default)

\* match <field>.next(cursor) { Idle => restart, Parsing => Parsing,
\* Done(_) => match cursor.next }: s is what the sub-machine kept in field returned
VariantMachine_fed(self, cursor, field, s, allow_modifier) ==
    IF s.r.k = "Idle" THEN restart(VariantMachine_default)
    ELSE IF s.r.k = "Parsing" THEN Ret([self EXCEPT ![field] = s.m], Parsing)
    ELSE VariantMachine_after([self EXCEPT ![field] = s.m], cursor, allow_modifier)

VariantMachine_next(self0, cursor) ==
    IF Skipping(self0, cursor) THEN Ret(self0, Parsing)
    ELSE
    LET self == ClearSkip(self0)
        curr == cursor.curr
        next == cursor.next
    IN  IF self.state = "Idle" THEN
            IF curr = "[" THEN
                Ret([self EXCEPT
                        !.start_pos = cursor.pos,
                        !.arbitrary_value_machine =
                            ArbitraryValueMachine_next(@, cursor).m,
                        !.state = "ParsingArbitraryVariant"], Parsing)
            ELSE IF curr \in Lower /\ next = ":" THEN
                Ret([self EXCEPT !.start_pos = cursor.pos, !.state = "ParseEnd"], Parsing)
            ELSE IF VariantMachine_named_start(curr) THEN
                Ret([self EXCEPT
                        !.start_pos = cursor.pos,
                        !.named_utility_machine =
                            NamedUtilityMachine_next(@, cursor).m,
                        !.state = "ParsingNamedVariant"], Parsing)
            ELSE Ret(self, Idle)
        ELSE IF self.state = "ParsingNamedVariant" THEN
            VariantMachine_fed(
                self, cursor, "named_utility_machine",
                NamedUtilityMachine_next(self.named_utility_machine, cursor), TRUE)
        ELSE IF self.state = "ParsingArbitraryVariant" THEN
            VariantMachine_fed(
                self, cursor, "arbitrary_value_machine",
                ArbitraryValueMachine_next(self.arbitrary_value_machine, cursor), FALSE)
        ELSE IF self.state = "ParsingModifier" THEN
            VariantMachine_fed(
                self, cursor, "modifier_machine",
                ModifierMachine_next(self.modifier_machine, cursor), FALSE)
        ELSE \* State::ParseEnd
            IF curr = ":" THEN done(VariantMachine_default, self.start_pos, cursor)
            ELSE restart(VariantMachine_default)

----------------------------------------------------------------------------
(* CandidateMachine *)

CandidateMachine_default ==
    [start_pos |-> 0, last_variant_end_pos |-> None, skip_until_pos |-> None,
     state |-> "Idle",
     utility_machine |-> UtilityMachine_default,
     variant_machine |-> VariantMachine_default]

\* next returns, beside the machine and its MachineState, the two locals
\* variant_machine_state and utility_machine_state (NotFed where it computes none)
CRet(m, r, v, u) ==
    [m |-> m, r |-> r, variant_machine_state |-> v, utility_machine_state |-> u]

\* the machine is reset, and stays ready for a candidate at the next byte
resume_at_once == CandidateMachine_default

CandidateMachine_resume_at_boundary ==
    [CandidateMachine_default EXCEPT !.state = "ResumeAtBoundary"]

CandidateMachine_is_boundary_character(c) ==
    is_ascii_whitespace(c) \/ c \in {"\"", "'", Backtick, "="}

\* b'/' | b'!' | b'=' | b'#' | b'-' | b'[' | b'(' | b':'
CandidateMachine_rejected_follower(b) ==
    b \in {"/", "!", "=", "#", "-", "[", "(", ":"}

\* the variant ended at end_pos: the part that starts at start does not touch it
CandidateMachine_not_touching(end_pos, start) == end_pos + 1 > start

\* the close of a candidate, were it to return the utility's span alone
close_utility_only(self, cursor, state) == Ret(self, state)

\* the utility is Done (as `state`, with `span`): close the candidate
CandidateMachine_close(self, cursor, state) ==
    IF self.last_variant_end_pos # None
       /\ CandidateMachine_not_touching(self.last_variant_end_pos[1], state.span.start)
        THEN Ret(self, state)
    ELSE IF self.last_variant_end_pos # None
        THEN done(CandidateMachine_default, self.start_pos, cursor)
    ELSE Ret(self, state)

\* State::Parsing, once both sub-machines were fed: v and u are their states
CandidateMachine_parsing(self, cursor, v, u) ==
    IF v.k = "Idle" /\ u.k = "Idle" THEN restart(CandidateMachine_default)
    ELSE IF v.k = "Parsing" /\ u.k = "Parsing" THEN Ret(self, Parsing)
    ELSE IF v.k = "Done" THEN
        IF self.last_variant_end_pos # None
           /\ CandidateMachine_not_touching(self.last_variant_end_pos[1], v.span.start)
        THEN Ret(CandidateMachine_resume_at_boundary, Idle)
        ELSE Ret([self EXCEPT !.last_variant_end_pos = Some(cursor.pos),
                              !.variant_machine = VariantMachine_default,
                              !.utility_machine = UtilityMachine_default], Parsing)
    ELSE IF v.k = "Parsing" /\ u.k = "Done" /\ cursor.next = ":" THEN
        IF self.last_variant_end_pos = None
           /\ cursor.pos + 2 < Len(cursor.input)
           /\ is_ascii_whitespace(ByteAt(cursor.input, cursor.pos + 2))
        THEN done(CandidateMachine_default, self.start_pos, cursor)
        ELSE Ret([self EXCEPT !.utility_machine = UtilityMachine_default], Parsing)
    ELSE IF v.k = "Parsing" /\ u.k = "Done" THEN
        CandidateMachine_close(self, cursor, u)
    ELSE IF v.k = "Idle" /\ u.k = "Parsing" THEN Ret(self, Parsing)
    ELSE IF v.k = "Parsing" /\ u.k = "Idle" THEN Ret(self, Parsing)
    ELSE IF u.k = "Done" /\ CandidateMachine_rejected_follower(cursor.next) THEN
        Ret(CandidateMachine_resume_at_boundary, Idle)
    ELSE \* (Idle, Done(span))
        CandidateMachine_close(self, cursor, u)

\* c is what the arms of State::Parsing returned, v and u what the sub-machines did
CandidateMachine_returned(c, v, u) == CRet(c.m, c.r, v, u)

\* State::Idle and State::Parsing once both sub-machines were fed: vm and um are
\* what variant_machine.next(cursor) and utility_machine.next(cursor) returned
CandidateMachine_fed(self, cursor, vm, um) ==
    LET fed == [self EXCEPT !.variant_machine = vm.m, !.utility_machine = um.m]
    IN  IF self.state = "Idle" THEN
            IF um.r.k = "Done" THEN CRet(fed, um.r, vm.r, um.r)
            ELSE IF vm.r.k = "Parsing" \/ um.r.k = "Parsing" THEN
                \* start_parsing
                CRet([fed EXCEPT !.start_pos = cursor.pos, !.state = "Parsing"],
                     Parsing, vm.r, um.r)
            ELSE CRet(fed, Idle, vm.r, um.r)
        ELSE \* State::Parsing
            CandidateMachine_returned(
                CandidateMachine_parsing(fed, cursor, vm.r, um.r), vm.r, um.r)

CandidateMachine_next(self0, cursor) ==
    IF Skipping(self0, cursor) THEN CRet(self0, Parsing, NotFed, NotFed)
    ELSE
    LET self == ClearSkip(self0)
        curr == cursor.curr
        next == cursor.next
    IN  IF self.state = "Idle"
           /\ ((curr = "-" /\ next = "-") \/ curr = "<" \/ curr = "/") THEN
            CRet(CandidateMachine_resume_at_boundary, Idle, NotFed, NotFed)
        ELSE IF self.state \in {"Idle", "Parsing"} THEN
            CandidateMachine_fed(self, cursor,
                                 VariantMachine_next(self.variant_machine, cursor),
                                 UtilityMachine_next(self.utility_machine, cursor))
        ELSE \* State::ResumeAtBoundary
            IF CandidateMachine_is_boundary_character(curr)
            THEN CRet(CandidateMachine_default, Idle, NotFed, NotFed)
            ELSE CRet(self, Idle, NotFed, NotFed)

----------------------------------------------------------------------------
(* Extractor *)

\* a.start.cmp(&b.start) alone is Less or Equal
start_less_eq(a, b) == a.start <= b.start

\* a.start.cmp(&b.start).then(b.end.cmp(&a.end)) is Less or Equal
SpanLessEq(a, b) == a.start < b.start \/ (a.start = b.start /\ a.end >= b.end)

\* spans.sort_by(..): a stable sort, here by insertion
RECURSIVE InsertSorted(_, _)
InsertSorted(sorted, span) ==
    IF sorted = <<>> THEN <<span>>
    ELSE IF SpanLessEq(sorted[Len(sorted)], span) THEN Append(sorted, span)
    ELSE Append(InsertSorted(SubSeq(sorted, 1, Len(sorted) - 1), span),
                sorted[Len(sorted)])

RECURSIVE sort_by(_)
sort_by(spans) ==
    IF spans = <<>> THEN <<>>
    ELSE InsertSorted(sort_by(SubSeq(spans, 1, Len(spans) - 1)), spans[Len(spans)])

\* step 2 of naive_drop_covered_spans over the sorted spans
RECURSIVE FilterSpans(_, _, _)
FilterSpans(spans, result, max_end) ==
    IF spans = <<>> THEN result
    ELSE LET span == Head(spans)
         IN  IF max_end = None \/ span.end > max_end[1]
             THEN FilterSpans(Tail(spans), Append(result, span), Some(span.end))
             ELSE FilterSpans(Tail(spans), result, max_end)

\* naive_drop_covered_spans, were it to stop after step 1
sort_only(spans) == sort_by(spans)

\* naive_drop_covered_spans, were it to skip step 1
filter_only(spans) == FilterSpans(spans, <<>>, None)

naive_drop_covered_spans(spans) == FilterSpans(sort_by(spans), <<>>, None)

Candidate(span, in) == [kind |-> "Candidate", span |-> span, bytes |-> slice(span, in)]
CssVariable(span, in) == [kind |-> "CssVariable", span |-> span, bytes |-> slice(span, in)]

\* the nested machines after the `if true { .. }` block of the loop body
NestedMachines(machines, cursor) ==
    IF is_ascii_whitespace(cursor.curr) THEN <<>>
    ELSE LET fed == [i \in 1..Len(machines) |->
                        CandidateMachine_next(machines[i], cursor).m]
         IN  IF cursor.curr = "[" THEN Append(fed, CandidateMachine_default) ELSE fed

NoObs == [variant_machine_state |-> NotFed, utility_machine_state |-> NotFed,
          state |-> Idle, before |-> CandidateMachine_default]

\* the spans the nested machines complete at the cursor
RECURSIVE NestedDone(_, _)
NestedDone(machines, cursor) ==
    IF machines = <<>> \/ is_ascii_whitespace(cursor.curr) THEN <<>>
    ELSE LET r == CandidateMachine_next(Head(machines), cursor).r
         IN  (IF IsDone(r) THEN <<r.span>> ELSE <<>>)
                 \o NestedDone(Tail(machines), cursor)

\* the loop body, were `in_flight_spans.push(span)` of the nested machines
\* not commented out
fed_with_nested(cursor, c, v) ==
    /\ candidate_machines' = NestedMachines(candidate_machines, cursor)
    /\ candidate_machine' = c.m
    /\ in_flight_spans' =
          (in_flight_spans \o NestedDone(candidate_machines, cursor))
              \o (IF IsDone(c.r) THEN <<c.r.span>> ELSE <<>>)
    /\ css_variable_machine' = v.m
    /\ extracted' = IF IsDone(v.r)
                    THEN Append(extracted, CssVariable(v.r.span, input))
                    ELSE extracted
    /\ obs' = [variant_machine_state |-> c.variant_machine_state,
               utility_machine_state |-> c.utility_machine_state,
               state |-> c.r, before |-> candidate_machine]

\* the loop body once the machines were fed: c is what candidate_machine.next
\* returned, v what css_variable_machine.next returned
Fed(cursor, c, v) ==
    /\ candidate_machines' = NestedMachines(candidate_machines, cursor)
    /\ candidate_machine' = c.m
    /\ in_flight_spans' = IF IsDone(c.r) THEN Append(in_flight_spans, c.r.span)
                          ELSE in_flight_spans
    /\ css_variable_machine' = v.m
    /\ extracted' = IF IsDone(v.r)
                    THEN Append(extracted, CssVariable(v.r.span, input))
                    ELSE extracted
    /\ obs' = [variant_machine_state |-> c.variant_machine_state,
               utility_machine_state |-> c.utility_machine_state,
               state |-> c.r, before |-> candidate_machine]

\* the loop body, were the cursor not moved to the next position
step_in_place ==
    /\ pc = "scan"
    /\ pos < Len(input)
    /\ Fed(Cursor(input, pos),
           CandidateMachine_next(candidate_machine, Cursor(input, pos)),
           CssVariableMachine_next(css_variable_machine, Cursor(input, pos)))
    /\ pos' = pos
    /\ UNCHANGED <<input, pc, unit, actual, output, failed_pop, fed_machines>>

\* one iteration of the for loop of Extractor::extract
Step ==
    /\ pc = "scan"
    /\ pos < Len(input)
    /\ Fed(Cursor(input, pos),
           CandidateMachine_next(candidate_machine, Cursor(input, pos)),
           CssVariableMachine_next(css_variable_machine, Cursor(input, pos)))
    /\ pos' = pos + 1
    /\ UNCHANGED <<input, pc, unit, actual, output, failed_pop, fed_machines>>

\* after the loop: drop the covered spans, emit the candidates, return
Finish ==
    /\ pc = "scan"
    /\ pos = Len(input)
    /\ extracted' =
         IF in_flight_spans # <<>>
         THEN LET spans == naive_drop_covered_spans(in_flight_spans)
              IN  extracted \o [i \in 1..Len(spans) |-> Candidate(spans[i], input)]
         ELSE extracted
    /\ pc' = "done"
    /\ UNCHANGED <<input, pos, candidate_machine, css_variable_machine,
                   candidate_machines, in_flight_spans, obs, unit, actual,
                   output, failed_pop,
                   fed_machines>>

----------------------------------------------------------------------------
(* The per-machine test loops: every machine alone, fed each position once *)

Machines ==
    [string_machine             |-> StringMachine_default,
     css_variable_machine       |-> CssVariableMachine_default,
     arbitrary_value_machine    |-> ArbitraryValueMachine_default,
     arbitrary_variable_machine |-> ArbitraryVariableMachine_default,
     arbitrary_property_machine |-> ArbitraryPropertyMachine_default,
     modifier_machine           |-> ModifierMachine_default,
     named_utility_machine      |-> NamedUtilityMachine_default,
     named_variant_machine      |-> NamedVariantMachine_default,
     utility_machine            |-> UtilityMachine_default,
     variant_machine            |-> VariantMachine_default,
     candidate_machine          |-> CandidateMachine_default]

NoSpans == [f \in DOMAIN Machines |-> <<>>]

\* machine.next(&cursor) for every stand-alone machine
FeedAll(machines, cursor) ==
    [string_machine |-> StringMachine_next(machines.string_machine, cursor),
     css_variable_machine |->
        CssVariableMachine_next(machines.css_variable_machine, cursor),
     arbitrary_value_machine |->
        ArbitraryValueMachine_next(machines.arbitrary_value_machine, cursor),
     arbitrary_variable_machine |->
        ArbitraryVariableMachine_next(machines.arbitrary_variable_machine, cursor),
     arbitrary_property_machine |->
        ArbitraryPropertyMachine_next(machines.arbitrary_property_machine, cursor),
     modifier_machine |-> ModifierMachine_next(machines.modifier_machine, cursor),
     named_utility_machine |->
        NamedUtilityMachine_next(machines.named_utility_machine, cursor),
     named_variant_machine |->
        NamedVariantMachine_next(machines.named_variant_machine, cursor),
     utility_machine |-> UtilityMachine_next(machines.utility_machine, cursor),
     variant_machine |-> VariantMachine_next(machines.variant_machine, cursor),
     candidate_machine |-> CandidateMachine_next(machines.candidate_machine, cursor)]

\* if let MachineState::Done(span) = machine.next(&cursor) { actual.push(..) },
\* for every machine: fed is what each machine's next returned
Pushed(fed) ==
    /\ unit' = [f \in DOMAIN Machines |-> fed[f].m]
    /\ actual' = [f \in DOMAIN Machines |->
                     IF IsDone(fed[f].r) THEN Append(actual[f], fed[f].r.span)
                     ELSE actual[f]]

\* one iteration of `for i in 0..input.len()` of the machines' extraction tests
TestStep ==
    /\ pc = "test"
    /\ pos < Len(input)
    /\ Pushed(FeedAll(unit, Cursor(input, pos)))
    /\ pos' = pos + 1
    /\ UNCHANGED <<input, pc, candidate_machine, css_variable_machine,
                   candidate_machines, in_flight_spans, extracted, obs,
                   output, failed_pop,
                   fed_machines>>

----------------------------------------------------------------------------
(* The Ruby pre-processor *)

\* bracket_stack.pop(bracket): whether the top entry is the one the closing
\* bracket ends, and the stack left behind
BracketStack_pop(stack, bracket, failed) ==
    IF last(stack) = bracket THEN [ok |-> TRUE, stack |-> pop(stack)]
    ELSE [ok |-> FALSE,
          stack |-> IF failed = "dropped" THEN pop(stack) ELSE stack]

\* the closing boundary of an opening bracket; the bracket stack holds the
\* closing bracket each pushed bracket awaits
Ruby_boundary(b) == IF b = "[" THEN "]" ELSE IF b = "(" THEN ")" ELSE "}"

\* the write, were the byte replaced by a tab
tabbed(buffer, p) == [buffer EXCEPT ![p + 1] = "\t"]

\* result[cursor.pos] = b' '
Blanked(buffer, p) == [buffer EXCEPT ![p + 1] = " "]

\* the negation of the test that skips a byte: `%w` or `%W` is looked for with
\* cursor.curr != b'%' && !matches!(cursor.next, b'w' | b'W')
Ruby_marker(cursor) == ~(cursor.curr # "%" /\ cursor.next \notin {"w", "W"})

\* the arm for b'\\': a backslash before a space becomes a space, and the
\* escaped byte is skipped
Ruby_escape(buffer, cursor) ==
    [pos |-> cursor.pos + 1,
     result |-> IF cursor.next = " " THEN Blanked(buffer, cursor.pos) ELSE buffer]

\* the inner `while cursor.pos < len`, from position p on: the buffer it leaves
\* and the position it leaves the cursor at
RECURSIVE Ruby_literal(_, _, _, _, _, _)
Ruby_literal(content, p, buffer, boundary, stack, failed) ==
    IF p >= Len(content) THEN [pos |-> p, result |-> buffer]
    ELSE
    LET cursor == Cursor(content, p)
        curr == cursor.curr
    IN  IF curr = "\\" THEN
            LET e == Ruby_escape(buffer, cursor)
            IN  Ruby_literal(content, e.pos + 1, e.result, boundary, stack, failed)
        ELSE IF curr \in {"[", "(", "{"} THEN
            Ruby_literal(content, p + 1, buffer, boundary,
                         push(stack, Ruby_boundary(curr)), failed)
        ELSE IF curr \in {"]", ")", "}"} /\ stack # <<>> THEN
            LET popped == BracketStack_pop(stack, curr, failed)
            IN  Ruby_literal(content, IF popped.ok THEN p + 1 ELSE p + 2, buffer,
                             boundary, popped.stack, failed)
        ELSE IF curr = boundary THEN
            [pos |-> p, result |-> Blanked(buffer, p)]
        ELSE Ruby_literal(content, p + 1, buffer, boundary, stack, failed)

\* the outer `while cursor.pos < len`, from position p on
RECURSIVE Ruby_scan(_, _, _, _)
Ruby_scan(content, p, buffer, failed) ==
    IF p >= Len(content) THEN buffer
    ELSE IF ~Ruby_marker(Cursor(content, p)) THEN
        Ruby_scan(content, p + 1, buffer, failed)
    ELSE IF ByteAt(content, p + 2) \notin {"[", "(", "{"} THEN
        Ruby_scan(content, p + 3, buffer, failed)
    ELSE
        LET inner == Ruby_literal(content, p + 3, Blanked(buffer, p + 2),
                                  Ruby_boundary(ByteAt(content, p + 2)), <<>>, failed)
        IN  Ruby_scan(content, inner.pos, inner.result, failed)

\* Ruby::process
Ruby_process(content, failed) == Ruby_scan(content, 0, content, failed)

\* pre_processor.process(input)
Process ==
    /\ pc = "ruby"
    /\ output' = Ruby_process(input, failed_pop)
    /\ pc' = "processed"
    /\ UNCHANGED <<input, pos, candidate_machine, css_variable_machine,
                   candidate_machines, in_flight_spans, extracted, obs, unit,
                   actual, failed_pop,
                   fed_machines>>

----------------------------------------------------------------------------
(* Inputs and specifications *)

\* every concatenation of at most n of the fragments
RECURSIVE Concats(_, _)
Concats(fragments, n) ==
    IF n = 0 THEN {<<>>}
    ELSE LET shorter == Concats(fragments, n - 1)
         IN  shorter \cup {w \o f : w \in shorter, f \in fragments}

\* the longest input is this many fragments, the longest vector of spans this
\* many spans
MaxFragments == 3

\* the bytes the spans handed to naive_drop_covered_spans alone point into
SpanText == Chars("abcd")

Spans ==
    {span \in [start : 0..(Len(SpanText) - 1), end : 0..(Len(SpanText) - 1)] :
        span.start <= span.end}

RECURSIVE SpanLists(_)
SpanLists(n) ==
    IF n = 0 THEN {<<>>}
    ELSE LET shorter == SpanLists(n - 1)
         IN  shorter \cup {Append(l, s) : l \in shorter, s \in Spans}

\* naive_drop_covered_spans alone: the spans it returns, as Candidates
Drop ==
    /\ pc = "spans"
    /\ extracted' =
         LET spans == naive_drop_covered_spans(in_flight_spans)
         IN  [i \in 1..Len(spans) |-> Candidate(spans[i], input)]
    /\ pc' = "dropped"
    /\ UNCHANGED <<input, pos, candidate_machine, css_variable_machine,
                   candidate_machines, in_flight_spans, obs, unit, actual,
                   output, failed_pop,
                   fed_machines>>

InitWith(inputs, entries) ==
    /\ input \in inputs
    /\ pos = 0
    /\ pc \in entries
    /\ candidate_machine = CandidateMachine_default
    /\ css_variable_machine = CssVariableMachine_default
    /\ candidate_machines = <<>>
    /\ in_flight_spans \in IF "spans" \in entries THEN SpanLists(MaxFragments)
                                              ELSE {<<>>}
    /\ extracted = <<>>
    /\ obs = NoObs
    /\ unit = Machines
    /\ actual = NoSpans
    /\ output = <<>>
    /\ failed_pop \in IF "ruby" \in entries THEN {"kept", "dropped"} ELSE {"kept"}
    /\ fed_machines = {}

\* the pieces the enumerated inputs are put together from
Fragments ==
    {Chars(f) : f \in {"ab", "a", "5", ":", "[", "]", " ", "-", ".", "=",
                       "\\ ", "--x", "a:", "[&", "-[x", "[a:b", "!", "/5"}}

\* the pieces the inputs of the machines' own tests are put together from
UnitFragments ==
    {Chars(f) : f \in {"ab", "5", "-", ".", ":", "/", "(--x", ",a", ")", "[x]", "'"}}
    \cup {<<NUL>>}

\* inputs of the repository's tests and of the design's scenarios
Corpus ==
    {Chars(f) : f \in {
        "[flex]", "[p-2.5]", "[flex,[italic,[underline]]]", "bg-[red]-[blue]",
        "[\"flex\"]", "[CssClass(\"gap-y-4\")]",
        "has-[.italic]:flex", "[CssClass(\"gap-y-4\")]:flex",
        "[:is(italic):is(underline)]:flex",
        "bg-(--my-color,red)", "bg-(--my-color)", "bg-red-500/(--my-opacity)",
        "2xl:flex", "*:flex", "hover:flex", "hover:focus:flex",
        "px-2.5", "px-.5", "opacity-5.", "foo2bar", "text-2xs",
        "hover:_blank", "sm:[&>[data-slot=icon]:last-child]:right-2.5",
        "{ underline: true }", "flex items-center px-2.5",
        "!flex!", "![color:red]!", "bg-red-500!/20",
        "bg-red-500/20/20", "bg-red-500/20/[20%]", "bg-red-500/20/(--my-opacity)",
        "bg-red-500/[20%]/20", "bg-red-500/[20%]/[20%]",
        "bg-red-500/[20%]/(--my-opacity)", "bg-red-500/(--my-opacity)/20",
        "bg-red-500/(--my-opacity)/[20%]",
        "bg-red-500/(--my-opacity)/(--my-opacity)",
        "bg-red-500/20/[x=flex]", "bg-red-500!/[x=flex]",
        "<div", "</div>", "<div></div>", "flex!block",
        "flex --a p-2 --b", "{ flex!: true }", "{ !flex: true }", "underline:",
        "[\"--x\"]", "[flex,--gap]",
        "--spacing-1\\/2", "--my-\\ variable", "--\\/a --", "var(--my-variable)",
        "--a\\]b", "--a\\\\b", "--a\\-", "--a\\", "--\\ a", "--a\\ --b",
        "foo/(--)", "[#0088cc]", "[url(https://tailwindcss.com)]", "['[({])}']",
        "[[data-foo]]", "[ #0088cc ]", "[foo[bar]", "[]", "[a)]", "[]]",
        "'foo'", "content-['hello_world']", "' hello world '", "'a\\ b'",
        "'a\\'b'", "\"a'b\"", "'abc", "'a\\'", "'\\ \"b\"",
        "%w flex px-2.5 ", "%w flex items-center ", "%W ab ", "%w [color:red] ", "hover:!flex", "hover:flex", "hover:![color:red]", "[a][b][c]",
        "[--x:a]", "[a:b\\]c]", "[a\\]b]", "(--x,a\\)b)",
        "[red]", "[:red]", "[color:red:blue]", "[color: red]", "[a--x5:b]",
        "[a:'b:c']", "[a:[b:c]]", "[a:b\\:c]", "[a:]", "[--x5:a]",
        "(bar)", "(-)", "(--my#color)", "(--foo,bar:baz)", "(--x,a]b)",
        "(--x,(a:b))", "(--x,'a:b')", "(--x,a(b)c)", "(--x)", "(--my-color,red,blue)",
        " a:", "ab a:", "ab:a:", "5 *:", "a:", "ab: -:", "group-hover/name:"}}
    \cup {<<"'", "\"", Backtick, "h", "e", "l", "l", "o", Backtick, "\"", "'">>,
          <<Backtick, "a", "'", Backtick>>,
          <<NUL>>, <<NUL, " ", "a", "b", "!">>, <<"a", "b", "!", NUL>>,
          <<"a", "b", NUL, "!">>, <<"-", "-", "a", NUL, "b">>,
          <<"a", ":", NUL, "a", "b">>, <<"[", "a", NUL, ":", "b", "]">>}

Inputs == Concats(Fragments, MaxFragments) \cup Corpus

UnitInputs == Concats(UnitFragments, MaxFragments) \cup Corpus

\* the pieces the inputs of the pre-processor are put together from
RubyFragments ==
    {Chars(f) : f \in {"%w", "%", "w", "[", "]", "(", ")", "\\", " ", "a"}}

\* inputs of test_ruby_pre_processor, and literals in other surroundings
RubyCorpus ==
    {Chars(f) : f \in {
        "%w[flex px-2.5]", "%w{flex px-2.5}", "%w(flex px-2.5)",
        "%w[flex data-[state=pending]:bg-[#0088cc] flex-col]",
        "%w{flex data-[state=pending]:bg-(--my-color) flex-col}",
        "%w(flex data-[state=pending]:bg-(--my-color) flex-col)",
        "%w[foo\\ bar baz\\ bat]", "%W[foo\\ bar baz\\ bat]",
        "%w[foo[bar baz]qux]", "%w[a\\]b]", "%w[a\\[b]", "%w[a\\\\ b]",
        "%w[%w[a]]", "%w[a] %w(b)", "x = %w{a b}", "flow[0]",
        "%w[[)]]", "%w[[)[]", "%w[(a]b]", "%w[a(b)c{d}]",
        "%w[(]\\ ]", "%w[(]\\]", "%w[a\\ b\\)c]", "%w[a\\"}}

\* any text, and any text as the body of a literal
RubyInputs ==
    LET texts == Concats(RubyFragments, MaxFragments)
    IN  texts \cup {Chars("%w[") \o t : t \in texts} \cup RubyCorpus

\* "scan": Extractor::new(input).extract(); "test": a machine's extraction test;
\* "ruby": Ruby.process(input)
Init ==
    \/ InitWith(Inputs, {"scan"})
    \/ InitWith(UnitInputs, {"test"})
    \/ InitWith(RubyInputs, {"ruby"})
    \/ InitWith({SpanText}, {"spans"})

Next == Step \/ Finish \/ TestStep \/ Process \/ Drop

Spec == Init /\ [][Next]_vars

\* the inputs of the specification that states fairness
LiveFragments == {Chars(f) : f \in {"ab", ":", " ", "--x"}}

LiveInit ==
    \/ InitWith(Concats(LiveFragments, MaxFragments), {"scan"})
    \/ InitWith(LiveFragments, {"test"})
    \/ InitWith(RubyCorpus, {"ruby"})
    \/ InitWith({SpanText}, {"spans"})

\* extract is one call that runs to its return: the for loop takes its next
\* iteration while there is one, and the code after the loop runs once it ends
LiveSpec == LiveInit /\ [][Next]_vars /\ WF_vars(Step) /\ WF_vars(Finish)

\* The loop body taken apart: at a position the nested machines, the
\* top-level machine and the CssVariableMachine are fed one at a time, in any
\* order, and the cursor moves on once all three were fed.
Feeds == {"candidate_machines", "candidate_machine", "css_variable_machine"}

ToFeed(machine) ==
    /\ pc = "scan"
    /\ pos < Len(input)
    /\ machine \notin fed_machines
    /\ fed_machines' = fed_machines \cup {machine}

\* the feed of the nested machines, were `in_flight_spans.push(span)` not
\* commented out: the vector then depends on who was fed first
feed_nested_pushing ==
    /\ ToFeed("candidate_machines")
    /\ candidate_machines' = NestedMachines(candidate_machines, Cursor(input, pos))
    /\ in_flight_spans' =
          in_flight_spans \o NestedDone(candidate_machines, Cursor(input, pos))
    /\ UNCHANGED <<input, pos, pc, candidate_machine, css_variable_machine,
                   extracted, obs, unit, actual, output, failed_pop>>

\* `for machine in &mut self.candidate_machines { machine.next(..) }` and the
\* push on `[`
FeedNested ==
    /\ ToFeed("candidate_machines")
    /\ candidate_machines' = NestedMachines(candidate_machines, Cursor(input, pos))
    /\ UNCHANGED <<input, pos, pc, candidate_machine, css_variable_machine,
                   in_flight_spans, extracted, obs, unit, actual, output,
                   failed_pop>>

\* what feeding the top-level machine changes: c is what its next returned
CandidateFed(c) ==
    /\ candidate_machine' = c.m
    /\ in_flight_spans' = IF IsDone(c.r) THEN Append(in_flight_spans, c.r.span)
                          ELSE in_flight_spans
    /\ obs' = [variant_machine_state |-> c.variant_machine_state,
               utility_machine_state |-> c.utility_machine_state,
               state |-> c.r, before |-> candidate_machine]

\* `self.candidate_machine.next(&self.cursor)` and the push of its span
FeedCandidate ==
    /\ ToFeed("candidate_machine")
    /\ CandidateFed(CandidateMachine_next(candidate_machine, Cursor(input, pos)))
    /\ UNCHANGED <<input, pos, pc, css_variable_machine, candidate_machines,
                   extracted, unit, actual, output, failed_pop>>

\* what feeding the CssVariableMachine changes: v is what its next returned
CssVariableFed(v) ==
    /\ css_variable_machine' = v.m
    /\ extracted' = IF IsDone(v.r)
                    THEN Append(extracted, CssVariable(v.r.span, input))
                    ELSE extracted

\* `self.css_variable_machine.next(&self.cursor)` and the push of its span
FeedCssVariable ==
    /\ ToFeed("css_variable_machine")
    /\ CssVariableFed(CssVariableMachine_next(css_variable_machine, Cursor(input, pos)))
    /\ UNCHANGED <<input, pos, pc, candidate_machine, candidate_machines,
                   in_flight_spans, obs, unit, actual, output, failed_pop>>

\* the end of the loop body: the next iteration moves the cursor
MoveTo ==
    /\ pc = "scan"
    /\ pos < Len(input)
    /\ fed_machines = Feeds
    /\ pos' = pos + 1
    /\ fed_machines' = {}
    /\ UNCHANGED <<input, pc, candidate_machine, css_variable_machine,
                   candidate_machines, in_flight_spans, extracted, obs, unit,
                   actual, output, failed_pop>>

OrderFragments == {Chars(f) : f \in {"[a", "ab", " ", "--x", "]"}}

OrderInit == InitWith(Concats(OrderFragments, MaxFragments), {"scan"})

OrderNext == FeedNested \/ FeedCandidate \/ FeedCssVariable \/ MoveTo \/ Finish

OrderSpec == OrderInit /\ [][OrderNext]_vars

----------------------------------------------------------------------------
(* What extract returned, and relations between spans *)

IsCandidate(e) == e.kind = "Candidate"

Candidates == SelectSeq(extracted, IsCandidate)

CandidateBytes == [i \in 1..Len(Candidates) |-> Candidates[i].bytes]

Covers(a, b) == a.start <= b.start /\ b.end <= a.end

Returned == pc = "done"

TestEnded == pc = "test" /\ pos = Len(input)

----------------------------------------------------------------------------
(* Properties *)

\* C1: every span that extract turns into a result, Candidate or CssVariable,
\* satisfies 0 <= start <= end < len(input).
SpansInBounds ==
    \A i \in 1..Len(extracted) :
        LET s == extracted[i].span
        IN  0 <= s.start /\ s.start <= s.end /\ s.end < Len(input)

\* extract returned a CssVariable and a Candidate, one of them ending on the
\* last byte of the input
SpansInBoundsWitness ==
    /\ Returned
    /\ \E i, j \in 1..Len(extracted) :
          /\ extracted[i].kind = "CssVariable"
          /\ extracted[j].kind = "Candidate"
          /\ extracted[j].span.end = Len(input) - 1

\* C2: in the list extract returns no Candidate span covers another one.
NoCoveredCandidate ==
    Returned =>
        \A i, j \in 1..Len(Candidates) :
            i # j => ~Covers(Candidates[i].span, Candidates[j].span)

\* the candidate machine emitted a span that covers another span it emitted,
\* and extract returned
NoCoveredCandidateWitness ==
    /\ Returned
    /\ Candidates # <<>>
    /\ \E i, j \in 1..Len(in_flight_spans) :
          i # j /\ Covers(in_flight_spans[i], in_flight_spans[j])

\* C3: a candidate with variants is emitted only if its parts touch: a variant
\* that ended at p is followed, in the emitted candidate, by a variant or by
\* the utility that begins exactly at p + 1.
PartsTouch ==
    LET ended == obs.before.last_variant_end_pos
    IN  /\ (/\ IsDone(obs.state)
            /\ IsDone(obs.utility_machine_state)
            /\ ended # None
            /\ obs.state.span.start <= ended[1])
           => obs.utility_machine_state.span.start = ended[1] + 1
        /\ (/\ IsDone(obs.variant_machine_state)
            /\ ended # None
            /\ candidate_machine.last_variant_end_pos = Some(pos - 1))
           => obs.variant_machine_state.span.start = ended[1] + 1

\* C4: when the utility machine completes at p and the byte at p + 1 is one of
\* / ! = # - [ ( : the candidate machine emits no candidate that ends at p,
\* whatever the variant machine reports; the object key (':' at p + 1 and
\* whitespace at p + 2) is the only exception.
NoRejectedFollower ==
    (/\ IsDone(obs.utility_machine_state)
     /\ ByteAt(input, pos) \in {"/", "!", "=", "#", "-", "[", "(", ":"}
     /\ ~(ByteAt(input, pos) = ":" /\ is_ascii_whitespace(ByteAt(input, pos + 1))))
    => ~(IsDone(obs.state) /\ obs.state.span.end = pos - 1)

\* C5: no Candidate extract returns contains an ASCII whitespace byte, escaped
\* or not.
NoWhitespaceInCandidate ==
    \A i \in 1..Len(Candidates) :
        \A j \in 1..Len(Candidates[i].bytes) :
            ~is_ascii_whitespace(Candidates[i].bytes[j])

\* C6: when text that starts with '[' completes neither as an arbitrary
\* property nor as an arbitrary variant, extract returns the candidates inside
\* the brackets, quoted or bare: `[flex]` yields `flex`, `[p-2.5]` yields
\* `p-2.5`, `[flex,[italic,[underline]]]` yields `flex`, `italic`, `underline`,
\* `bg-[red]-[blue]` yields `red`, `blue`, and a bracketed lower-case word
\* yields the word.
InnerCandidatesRecovered ==
    Returned =>
        /\ (input = Chars("[flex]")) => (CandidateBytes = <<Chars("flex")>>)
        /\ (input = Chars("[p-2.5]")) => (CandidateBytes = <<Chars("p-2.5")>>)
        /\ (input = Chars("[flex,[italic,[underline]]]"))
           => (CandidateBytes =
                 <<Chars("flex"), Chars("italic"), Chars("underline")>>)
        /\ (input = Chars("bg-[red]-[blue]"))
           => (CandidateBytes = <<Chars("red"), Chars("blue")>>)
        /\ (/\ Len(input) >= 3
            /\ input[1] = "[" /\ input[Len(input)] = "]"
            /\ \A i \in 2..(Len(input) - 1) : input[i] \in Lower)
           => (CandidateBytes = <<SubSeq(input, 2, Len(input) - 1)>>)

\* C7: when a candidate that contains brackets completes as a whole, extract
\* returns that candidate and none of the candidates inside its span:
\* `has-[.italic]:flex`, `[CssClass("gap-y-4")]:flex` and
\* `[:is(italic):is(underline)]:flex` are each returned alone.
WholeCandidateOnly ==
    Returned =>
        /\ (input \in {Chars("has-[.italic]:flex"),
                       Chars("[CssClass(\"gap-y-4\")]:flex"),
                       Chars("[:is(italic):is(underline)]:flex")})
           => (CandidateBytes = <<input>>)
        /\ \A i \in 1..Len(in_flight_spans) :
              LET whole == in_flight_spans[i]
              IN  (/\ \E k \in (whole.start + 1)..(whole.end + 1) : input[k] = "["
                   /\ \E c \in 1..Len(Candidates) : Candidates[c].span = whole)
                  => \A c \in 1..Len(Candidates) :
                        Covers(whole, Candidates[c].span)
                            => Candidates[c].span = whole

\* a candidate with brackets was emitted as a whole after a candidate inside
\* its brackets had been emitted, and extract returned
WholeCandidateOnlyWitness ==
    /\ Returned
    /\ \E i, j \in 1..Len(in_flight_spans) :
          /\ i < j
          /\ in_flight_spans[j].start < in_flight_spans[i].start
          /\ in_flight_spans[i].end < in_flight_spans[j].end
          /\ input[in_flight_spans[j].start + 1] = "["
          /\ \E c \in 1..Len(Candidates) : Candidates[c].span = in_flight_spans[j]

\* C8: a named utility or a modifier with a parenthesised variable accepts
\* exactly what ArbitraryVariableMachine accepts, the `,fallback` form
\* included: extract returns `bg-(--my-color,red)` as the single candidate of
\* that input, and NamedUtilityMachine emits `bg-(...)` whenever
\* ArbitraryVariableMachine emits the `(...)`.
ParenthesisedVariable ==
    /\ (Returned /\ input = Chars("bg-(--my-color,red)"))
       => CandidateBytes = <<input>>
    /\ (TestEnded /\ Len(input) > 4 /\ SubSeq(input, 1, 4) = Chars("bg-("))
       => \A e \in 4..(Len(input) - 1) :
             (\E i \in 1..Len(actual.arbitrary_variable_machine) :
                 actual.arbitrary_variable_machine[i] = Span(3, e))
             <=> (\E i \in 1..Len(actual.named_utility_machine) :
                     actual.named_utility_machine[i] = Span(0, e))

\* C9: for named variants VariantMachine emits exactly the spans
\* NamedVariantMachine emits on the same input; a variant that begins with `*`
\* or a digit is recognised, and `2xl:flex` is extracted as the single candidate
\* `2xl:flex`.
NamedVariantsAlike ==
    /\ (Returned /\ input = Chars("2xl:flex")) => CandidateBytes = <<input>>
    /\ (TestEnded /\ \A i \in 1..Len(input) : input[i] \notin {"[", "]"})
       => actual.variant_machine = actual.named_variant_machine

\* C10: in every span NamedUtilityMachine emits, each '.' of the name stands
\* between two digits, and every digit that starts a run of digits is preceded
\* by '-' or '.'.
DotsAndDigits ==
    \A i \in 1..Len(actual.named_utility_machine) :
        LET name == slice(actual.named_utility_machine[i], input)
            named(j) == \A k \in 1..j : name[k] \notin {"[", "("}
        IN  \A j \in 1..Len(name) :
                named(j) =>
                    /\ name[j] = "."
                       => /\ 1 < j /\ j < Len(name)
                          /\ name[j - 1] \in Digit
                          /\ name[j + 1] \in Digit
                    /\ (name[j] \in Digit /\ (j = 1 \/ name[j - 1] \notin Digit))
                       => (1 < j /\ name[j - 1] \in {"-", "."})

\* a named utility made of lower-case letters only
IsWord(bytes) == bytes # <<>> /\ \A i \in 1..Len(bytes) : bytes[i] \in Lower

\* the input without its first and its last byte
Inner == SubSeq(input, 2, Len(input) - 1)

BothImportant(span) ==
    ByteAt(input, span.start) = "!" /\ ByteAt(input, span.end) = "!"

\* C11: extract never returns a candidate in which a utility both begins with
\* '!' and ends with '!': the utility machine completes no such utility, no
\* Candidate has that shape, and for the input `!U!`, U a named utility or an
\* arbitrary property, no candidate is returned.
NoDoubleImportant ==
    /\ IsDone(obs.utility_machine_state)
       => ~BothImportant(obs.utility_machine_state.span)
    /\ \A i \in 1..Len(actual.utility_machine) :
          ~BothImportant(actual.utility_machine[i])
    /\ \A i \in 1..Len(Candidates) : ~BothImportant(Candidates[i].span)
    /\ (/\ Returned
        /\ Len(input) >= 3 /\ input[1] = "!" /\ input[Len(input)] = "!"
        /\ (IsWord(Inner) \/ Inner = Chars("[color:red]")))
       => Candidates = <<>>

\* extract returned on an input `!U!`, U a named utility, and the last byte,
\* the second `!`, reached the utility machine in ParsingImportant
NoDoubleImportantWitness ==
    /\ Returned
    /\ Len(input) >= 3 /\ input[1] = "!" /\ input[Len(input)] = "!"
    /\ IsWord(Inner)
    /\ obs.before.utility_machine.state = "ParsingImportant"
    /\ obs.before.utility_machine.start_pos = 0
    /\ Candidates = <<>>

\* a utility that a `/` may follow, as the inputs spell it: a lower-case word
\* of two letters or more (a single letter is a utility only before whitespace
\* or at the end of the input), or `bg-red-500`
IsUtilityText(bytes) ==
    (IsWord(bytes) /\ Len(bytes) >= 2) \/ bytes = Chars("bg-red-500")

\* a modifier without its `/`: named, `[..]` or `(--x)`
IsModifierText(bytes) ==
    \/ bytes # <<>> /\ \A i \in 1..Len(bytes) : bytes[i] \in AlphaNum
    \/ bytes \in {Chars("[20%]"), Chars("[x=flex]"), Chars("(--my-opacity)")}

\* the input is `U/M1/M2`, its two `/` being the bytes i and j
Stacked(i, j) ==
    /\ i < j /\ input[i] = "/" /\ input[j] = "/"
    /\ IsUtilityText(SubSeq(input, 1, i - 1))
    /\ IsModifierText(SubSeq(input, i + 1, j - 1))
    /\ IsModifierText(SubSeq(input, j + 1, Len(input)))

\* the input is `U!/M`, its `/` being the byte j
ImportantBeforeModifier(j) ==
    /\ j > 2 /\ input[j] = "/" /\ input[j - 1] = "!"
    /\ IsUtilityText(SubSeq(input, 1, j - 2))
    /\ IsModifierText(SubSeq(input, j + 1, Len(input)))

\* where the last modifier of an input `U/M1/M2` or `U!/M` begins
LastModifierAt ==
    {j \in 1..Len(input) :
        ImportantBeforeModifier(j) \/ \E i \in 1..(j - 1) : Stacked(i, j)}

\* C12 as stated: a utility followed by two modifiers yields no candidate at
\* all; on `U/M1/M2`, the modifiers of any kind, and on `U!/M`, extract
\* returns no Candidate.
NoCandidateFromStackedModifiers ==
    (Returned /\ LastModifierAt # {}) => Candidates = <<>>

\* C12, amended: a utility followed by two modifiers is not returned, whole or
\* in part. The utility machine completes nothing when a modifier is followed
\* by `/`; on `U/M1/M2` and on `U!/M` every Candidate extract returns lies in
\* the last modifier, after a boundary byte (whitespace, a quote, `=`) of it,
\* so that a last modifier without boundary byte leaves no Candidate at all.
StackedModifiersRejected ==
    /\ (/\ pc = "scan" /\ pos > 0
        /\ obs.before.utility_machine.state = "ParsingModifier"
        /\ ByteAt(input, pos) = "/")
       => ~IsDone(obs.utility_machine_state) /\ ~IsDone(obs.state)
    /\ Returned =>
          \A j \in LastModifierAt : \A c \in 1..Len(Candidates) :
              \E k \in (j + 1)..Candidates[c].span.start :
                  CandidateMachine_is_boundary_character(input[k])

\* extract returned nothing on an input `U/M1/M2`
StackedModifiersRejectedWitness ==
    /\ Returned
    /\ \E i, j \in 1..Len(input) : Stacked(i, j)
    /\ extracted = <<>>

\* the byte the last iteration of extract's loop fed to the machines
Curr == ByteAt(input, pos - 1)

\* C13: a CandidateMachine that is Idle and sees `--`, `<` or `/` enters
\* ResumeAtBoundary; from then on it returns Idle for every byte up to and
\* including the next boundary byte (ASCII whitespace, a double or single
\* quote, a backtick, `=`), emits nothing in between, and is in its default
\* state right after that boundary byte. `<div`, `</div>` and `<div></div>`
\* yield no candidate.
IgnoredUntilBoundary ==
    /\ (pc = "scan" /\ pos > 0) =>
          /\ (/\ obs.before.state = "Idle"
              /\ \/ Curr = "-" /\ ByteAt(input, pos) = "-"
                 \/ Curr \in {"<", "/"})
             => /\ candidate_machine.state = "ResumeAtBoundary"
                /\ obs.state = Idle
          /\ (obs.before.state = "ResumeAtBoundary")
             => /\ obs.state = Idle
                /\ IF CandidateMachine_is_boundary_character(Curr)
                   THEN candidate_machine = CandidateMachine_default
                   ELSE candidate_machine.state = "ResumeAtBoundary"
    /\ (Returned /\ input \in {Chars("<div"), Chars("</div>"), Chars("<div></div>")})
       => Candidates = <<>>

\* a machine that had waited in ResumeAtBoundary for two bytes or more was fed
\* a boundary byte, is in its default state, and has emitted nothing so far
IgnoredUntilBoundaryWitness ==
    /\ pc = "scan" /\ pos > 2
    /\ obs.before.state = "ResumeAtBoundary"
    /\ CandidateMachine_is_boundary_character(Curr)
    /\ ~CandidateMachine_is_boundary_character(ByteAt(input, pos - 2))
    /\ \/ input[1] \in {"<", "/"}
       \/ input[1] = "-" /\ input[2] = "-"
    /\ candidate_machine = CandidateMachine_default
    /\ in_flight_spans = <<>>

\* C14: a utility that ends in the important marker '!' and is immediately
\* followed by a lower-case letter yields no candidate: on `U!V`, U and V
\* named utilities, extract returns no Candidate, neither `U!` nor `V`.
NoCandidateAfterImportant ==
    (/\ Returned
     /\ \E k \in 2..(Len(input) - 1) :
           /\ input[k] = "!"
           /\ IsWord(SubSeq(input, 1, k - 1))
           /\ IsWord(SubSeq(input, k + 1, Len(input))))
    => Candidates = <<>>

\* C15: in what extract returns all CssVariable entries come before all
\* Candidate entries; the CssVariable entries are in the order in which their
\* last byte was reached, and the Candidate entries are in ascending order of
\* span start.
ResultOrder ==
    \A i, j \in 1..Len(extracted) :
        i < j =>
            /\ ~(extracted[i].kind = "Candidate" /\ extracted[j].kind = "CssVariable")
            /\ (extracted[i].kind = "CssVariable" /\ extracted[j].kind = "CssVariable")
               => extracted[i].span.end < extracted[j].span.end
            /\ (extracted[i].kind = "Candidate" /\ extracted[j].kind = "Candidate")
               => extracted[i].span.start < extracted[j].span.start

\* extract returned two CssVariables and two Candidates, one of the Candidates
\* lying before a CssVariable in the input
ResultOrderWitness ==
    /\ Returned
    /\ \E i, j, k, l \in 1..Len(extracted) :
          /\ i < j /\ j < k /\ k < l
          /\ extracted[i].kind = "CssVariable" /\ extracted[j].kind = "CssVariable"
          /\ extracted[k].kind = "Candidate" /\ extracted[l].kind = "Candidate"
          /\ extracted[k].span.end < extracted[i].span.start

\* C16: a variant-less utility followed by ':' is emitted on its own (the span
\* is the utility, without the colon) exactly when the byte after the ':' is
\* ASCII whitespace; when the ':' is the last byte of the input the object-key
\* exception does not fire and no candidate is emitted for that utility.
ObjectKeyUtility ==
    /\ (/\ pc = "scan" /\ pos > 0
        /\ IsDone(obs.utility_machine_state)
        /\ obs.before.last_variant_end_pos = None
        /\ ByteAt(input, pos) = ":")
       => ((IsDone(obs.state) /\ obs.state.span = obs.utility_machine_state.span)
           <=> is_ascii_whitespace(ByteAt(input, pos + 1)))
    /\ (/\ Returned
        /\ Len(input) >= 2 /\ input[Len(input)] = ":"
        /\ IsWord(SubSeq(input, 1, Len(input) - 1)))
       => Candidates = <<>>

\* Extractor::new(in).extract() as a function of its input: Scan is the loop
\* from position p on, Scanned its body once candidate_machine.next returned c
RECURSIVE Scan(_, _, _, _)
Scanned(in, p, spans, c) ==
    Scan(in, p + 1, c.m, IF IsDone(c.r) THEN Append(spans, c.r.span) ELSE spans)

Scan(in, p, machine, spans) ==
    IF p >= Len(in) THEN spans
    ELSE Scanned(in, p, spans, CandidateMachine_next(machine, Cursor(in, p)))

\* the Candidate spans of Extractor::new(in).extract()
extract_candidates(in) ==
    naive_drop_covered_spans(Scan(in, 0, CandidateMachine_default, <<>>))

\* C17: for every Candidate span s that extract returns on an input, extract
\* on the slice input[s.start..=s.end] alone returns exactly one Candidate,
\* the whole slice.
SliceExtractsItself ==
    Returned =>
        \A i \in 1..Len(Candidates) :
            extract_candidates(Candidates[i].bytes)
                = <<Span(0, Len(Candidates[i].bytes) - 1)>>

\* the spans CssVariableMachine emitted so far, inside extract or on its own
CssVariableSpans ==
    {extracted[i].span : i \in {k \in 1..Len(extracted) :
                                   extracted[k].kind = "CssVariable"}}
    \cup {actual.css_variable_machine[i] :
             i \in 1..Len(actual.css_variable_machine)}

IsIdentByte(b) == b = "_" \/ b = "-" \/ b \in AlphaNum

\* from byte i on, bytes is made of identifier bytes and of escape pairs
RECURSIVE IdentOrEscaped(_, _)
IdentOrEscaped(bytes, i) ==
    IF i > Len(bytes) THEN TRUE
    ELSE IF bytes[i] = "\\" THEN i < Len(bytes) /\ IdentOrEscaped(bytes, i + 2)
    ELSE IsIdentByte(bytes[i]) /\ IdentOrEscaped(bytes, i + 1)

\* every emitted span is `--`, one byte or more, identifier bytes and escape
\* pairs only
CssVariableShape ==
    \A s \in CssVariableSpans :
        LET bytes == slice(s, input)
        IN  /\ Len(bytes) >= 3
            /\ bytes[1] = "-" /\ bytes[2] = "-"
            /\ IdentOrEscaped(bytes, 3)

\* C18 as stated: every span CssVariableMachine emits begins with `--`
\* followed by at least one further byte, and every byte after the `--` that
\* is not part of a backslash escape pair is in [A-Za-z0-9_-]; a bare `--`, at
\* the end of the input or before a non-identifier byte, never emits.
CssVariableIdentifier ==
    /\ CssVariableShape
    /\ \A p \in 0..(Len(input) - 2) :
          (/\ ByteAt(input, p) = "-" /\ ByteAt(input, p + 1) = "-"
           /\ (p + 2 >= Len(input) \/ ~IsIdentByte(ByteAt(input, p + 2))))
          => \A s \in CssVariableSpans : s.start # p

\* C18, amended: every span CssVariableMachine emits begins with `--` followed
\* by at least one further byte, and every byte after the `--` that is not
\* part of a backslash escape pair is in [A-Za-z0-9_-]; a `--` at the end of
\* the input, before a byte that is neither an identifier byte nor a
\* backslash, or before a backslash that is the last byte or precedes ASCII
\* whitespace, never emits. A `--` before an escape pair can emit.
CssVariableIdentifierOrEscape ==
    /\ CssVariableShape
    /\ \A p \in 0..(Len(input) - 2) :
          (/\ ByteAt(input, p) = "-" /\ ByteAt(input, p + 1) = "-"
           /\ \/ p + 2 >= Len(input)
              \/ ~IsIdentByte(ByteAt(input, p + 2)) /\ ByteAt(input, p + 2) # "\\"
              \/ /\ ByteAt(input, p + 2) = "\\"
                 /\ \/ p + 3 >= Len(input)
                    \/ is_ascii_whitespace(ByteAt(input, p + 3)))
          => \A s \in CssVariableSpans : s.start # p

\* the machine emitted a variable with an escape pair right after the `--`,
\* and passed a bare `--` at the end of the input without emitting
CssVariableIdentifierOrEscapeWitness ==
    /\ pos = Len(input)
    /\ \E s \in CssVariableSpans : ByteAt(input, s.start + 2) = "\\"
    /\ Len(input) >= 3
    /\ input[Len(input)] = "-" /\ input[Len(input) - 1] = "-"
    /\ is_ascii_whitespace(input[Len(input) - 2])

\* where the first `--` of the input begins, -1 if there is none
FirstVariableAt ==
    LET starts == {p \in 0..(Len(input) - 2) :
                      ByteAt(input, p) = "-" /\ ByteAt(input, p + 1) = "-"}
    IN  IF starts = {} THEN -1
        ELSE CHOOSE p \in starts : \A q \in starts : p <= q

\* the variable whose bytes after the `--` begin at in[i]: where it ends (-1 if
\* it is invalid or never completes), and whether an escape was met on the way
RECURSIVE VariableEnd(_, _, _)
VariableEnd(in, i, escaped) ==
    IF i > Len(in) THEN [end |-> -1, escaped |-> escaped]
    ELSE IF in[i] = "\\" THEN
        IF i = Len(in) \/ is_ascii_whitespace(in[i + 1])
        THEN [end |-> -1, escaped |-> TRUE]
        ELSE VariableEnd(in, i + 2, TRUE)
    ELSE IF IsIdentByte(in[i]) THEN
        IF i = Len(in) \/ ~(IsIdentByte(in[i + 1]) \/ in[i + 1] = "\\")
        THEN [end |-> i - 1, escaped |-> escaped]
        ELSE VariableEnd(in, i + 1, escaped)
    ELSE [end |-> -1, escaped |-> escaped]

\* C19: inside a CSS variable a backslash followed by a non-whitespace byte
\* is consumed together with that byte, whatever the byte is, and the variable
\* continues after the pair (`--spacing-1\/2` is emitted whole); a backslash
\* followed by ASCII whitespace invalidates the variable, and no span is
\* emitted for it.
CssVariableEscapes ==
    (pos = Len(input) /\ FirstVariableAt >= 0) =>
        LET p == FirstVariableAt
            v == VariableEnd(input, p + 3, FALSE)
        IN  v.escaped =>
                IF v.end = -1 THEN \A s \in CssVariableSpans : s.start # p
                ELSE Span(p, v.end) \in CssVariableSpans

\* `--spacing-1\/2` was scanned to its end and emitted whole
CssVariableEscapesWitness ==
    /\ pos = Len(input)
    /\ input = Chars("--spacing-1\\/2")
    /\ CssVariableSpans = {Span(0, Len(input) - 1)}

\* the closing byte an opening bracket calls for
Closer(b) == IF b = "(" THEN ")" ELSE IF b = "[" THEN "]" ELSE "}"

\* from byte i on, the brackets of bytes outside strings and escape pairs are
\* nested and balanced: stack holds the closers awaited, quote the delimiter
\* of the string i lies in ("" outside strings)
RECURSIVE Balanced(_, _, _, _)
Balanced(bytes, i, stack, quote) ==
    IF i > Len(bytes) THEN stack = <<>> /\ quote = ""
    ELSE IF bytes[i] = "\\" THEN Balanced(bytes, i + 2, stack, quote)
    ELSE IF quote # "" THEN
        Balanced(bytes, i + 1, stack, IF bytes[i] = quote THEN "" ELSE quote)
    ELSE IF ArbClass(bytes[i]) = "Quote" THEN Balanced(bytes, i + 1, stack, bytes[i])
    ELSE IF bytes[i] \in {"(", "[", "{"} THEN
        Balanced(bytes, i + 1, Append(stack, Closer(bytes[i])), quote)
    ELSE IF bytes[i] \in {")", "]", "}"} THEN
        /\ stack # <<>>
        /\ stack[Len(stack)] = bytes[i]
        /\ Balanced(bytes, i + 1, SubSeq(stack, 1, Len(stack) - 1), quote)
    ELSE Balanced(bytes, i + 1, stack, quote)

\* C20: every span ArbitraryValueMachine emits starts with '[' and ends with
\* ']', has at least one byte between them, and has its ( ) [ ] { } bytes that
\* lie outside embedded string literals properly nested and balanced; `[]` is
\* never emitted.
BalancedArbitraryValue ==
    \A i \in 1..Len(actual.arbitrary_value_machine) :
        LET bytes == slice(actual.arbitrary_value_machine[i], input)
        IN  /\ Len(bytes) >= 3
            /\ bytes[1] = "[" /\ bytes[Len(bytes)] = "]"
            /\ Balanced(bytes, 1, <<>>, "")

IsQuote(b) == b \in {"\"", "'", Backtick}

\* the literal whose bytes after the opening quote q begin at in[i]: where its
\* first unescaped q is (0 if there is none), and whether whitespace, bare or
\* escaped, was met before it
RECURSIVE LiteralScan(_, _, _, _, _)
LiteralScan(in, i, q, bare, escaped) ==
    IF i > Len(in) THEN [close |-> 0, bare |-> bare, escaped |-> escaped]
    ELSE IF in[i] = "\\" THEN
        LiteralScan(in, i + 2, q, bare,
                    escaped \/ (i < Len(in) /\ is_ascii_whitespace(in[i + 1])))
    ELSE IF in[i] = q THEN [close |-> i, bare |-> bare, escaped |-> escaped]
    ELSE LiteralScan(in, i + 1, q, bare \/ is_ascii_whitespace(in[i]), escaped)

\* the input is a literal from its first byte on
Literal == LiteralScan(input, 2, input[1], FALSE, FALSE)

\* C21 as stated: fed a literal that opens with a quote byte, contains no
\* unescaped whitespace and closes with the same unescaped quote byte,
\* StringMachine emits exactly one Done span, the opening quote through the
\* closing quote; fed a literal whose closing quote never comes, it emits none.
LiteralWithoutBareWhitespace ==
    (TestEnded /\ Len(input) >= 2 /\ IsQuote(input[1]) /\ ~Literal.bare) =>
        /\ (Literal.close = Len(input))
           => actual.string_machine = <<Span(0, Len(input) - 1)>>
        /\ (Literal.close = 0) => actual.string_machine = <<>>

\* C21, amended: fed a literal that opens with a quote byte, contains no
\* whitespace, bare or escaped, and closes with the same unescaped quote byte,
\* StringMachine emits exactly one Done span, the opening quote through the
\* closing quote (other quote kinds and escaped quotes inside do not end it);
\* fed such a literal whose closing quote never comes, it emits none. A
\* backslash before whitespace invalidates the literal.
LiteralWithoutWhitespace ==
    (/\ TestEnded /\ Len(input) >= 2 /\ IsQuote(input[1])
     /\ ~Literal.bare /\ ~Literal.escaped) =>
        /\ (Literal.close = Len(input))
           => actual.string_machine = <<Span(0, Len(input) - 1)>>
        /\ (Literal.close = 0) => actual.string_machine = <<>>

\* a literal with an escaped quote and a quote of another kind inside was fed
\* to its end and emitted whole
LiteralWithoutWhitespaceWitness ==
    /\ TestEnded /\ Len(input) >= 5 /\ IsQuote(input[1])
    /\ Literal.close = Len(input)
    /\ \E i \in 2..(Len(input) - 2) : input[i] = "\\" /\ input[i + 1] = input[1]
    /\ actual.string_machine = <<Span(0, Len(input) - 1)>>


\* the step's call of f's next returned Done, or returned Idle with
\* CandidateMachine neither in its ResumeAtBoundary state nor entering it
ReturnedDoneOrIdle(f, fed) ==
    \/ IsDone(fed[f].r)
    \/ /\ fed[f].r = Idle
       /\ ~(/\ f = "candidate_machine"
            /\ "ResumeAtBoundary" \in {unit[f].state, fed[f].m.state})

\* C22: immediately after a machine's next returns Done(span), and immediately
\* after it returns Idle other than from CandidateMachine's ResumeAtBoundary
\* state, the machine's whole state, sub-machines included, equals that of a
\* freshly constructed instance; for every machine of the per-machine loops,
\* UtilityMachine and CandidateMachine included.
FreshAfterDoneOrIdle ==
    [][TestStep =>
        \A f \in DOMAIN Machines :
            ReturnedDoneOrIdle(f, FeedAll(unit, Cursor(input, pos)))
                => unit'[f] = Machines[f]]_vars


\* a state that ends a span at the cursor position p, if it is Done at all
EndsAt(state, p) ==
    IsDone(state) => state.span.end = p /\ state.span.start <= state.span.end

\* C23: every Done(span) a machine returns, at any nesting level, has span.end
\* equal to the cursor position of the call that returned it, and
\* span.start <= span.end: each of the machines fed alone, and in extract the
\* CandidateMachine, the VariantMachine and UtilityMachine inside it and the
\* CssVariableMachine.
DoneEndsAtCursor ==
    [][/\ TestStep =>
            \A f \in DOMAIN Machines :
                EndsAt(FeedAll(unit, Cursor(input, pos))[f].r, pos)
       /\ Step =>
            /\ EndsAt(obs'.state, pos)
            /\ EndsAt(obs'.variant_machine_state, pos)
            /\ EndsAt(obs'.utility_machine_state, pos)
            /\ EndsAt(CssVariableMachine_next(css_variable_machine,
                                              Cursor(input, pos)).r, pos)]_vars

\* extract was fed the last byte of a candidate with a variant: the utility
\* machine inside and the candidate machine both returned Done, the utility's
\* span beginning after the candidate's and both ending at that byte
DoneEndsAtCursorWitness ==
    /\ pc = "scan" /\ pos > 0
    /\ IsDone(obs.state) /\ IsDone(obs.utility_machine_state)
    /\ obs.state.span.start < obs.utility_machine_state.span.start
    /\ obs.state.span.end = pos - 1
    /\ obs.utility_machine_state.span.end = pos - 1


\* the UtilityMachines there are: the one inside the top-level
\* CandidateMachine, those inside the nested CandidateMachines, and in the
\* per-machine loops the one fed alone and the one inside the CandidateMachine
UtilityMachines ==
    {candidate_machine.utility_machine, unit.utility_machine,
     unit.candidate_machine.utility_machine}
        \cup {candidate_machines[i].utility_machine : i \in DOMAIN candidate_machines}

\* input[span.start ..= span.end] is in range
Sliceable(span) == 0 <= span.start /\ span.start <= span.end /\ span.end < Len(input)

\* C24: no index operation is out of range, whatever the bytes: a
\* UtilityMachine in ParsingImportant, which reads input[start_pos] when fed,
\* has start_pos below len(input), and every span that is sliced (the
\* in-flight spans, the results, the spans the per-machine loops push) lies
\* within the input; also for inputs that hold 0x00 bytes, end in the middle
\* of a token, or are empty.
IndexInRange ==
    /\ \A m \in UtilityMachines :
          m.state = "ParsingImportant" => m.start_pos < Len(input)
    /\ \A i \in DOMAIN in_flight_spans : Sliceable(in_flight_spans[i])
    /\ \A i \in DOMAIN extracted : Sliceable(extracted[i].span)
    /\ \A f \in DOMAIN Machines : \A i \in DOMAIN actual[f] : Sliceable(actual[f][i])

\* extract returned on an input that holds a 0x00 byte: at its last byte, a
\* `!`, the UtilityMachine was in ParsingImportant and read input[start_pos],
\* and the span it completed was sliced into a Candidate
IndexInRangeWitness ==
    /\ Returned
    /\ \E i \in DOMAIN input : input[i] = NUL
    /\ obs.before.utility_machine.state = "ParsingImportant"
    /\ IsDone(obs.state)
    /\ \E i \in DOMAIN extracted :
          extracted[i].kind = "Candidate" /\ extracted[i].span = obs.state.span


\* C25: extract terminates on every finite input: once called, it feeds the
\* positions 0..len-1 to the CandidateMachine and the CssVariableMachine, one
\* per iteration and in ascending order, and then returns its list, with
\* every position fed.
ExtractTerminates == (pc = "scan") ~> (Returned /\ pos = Len(input))

\* extract returned a list of two results or more after feeding every
\* position of an input of four bytes or more
ExtractTerminatesWitness ==
    Returned /\ pos = Len(input) /\ Len(input) >= 4 /\ Len(extracted) >= 2


Processed == pc = "processed"

\* the positions, 0-based, at which Ruby::process changed the buffer
Rewritten == {p \in 0..(Len(input) - 1) : output[p + 1] # input[p + 1]}

\* C26: Ruby::process returns a buffer of the same length as its input, and
\* at every position where the output differs from the input the output byte
\* is a space.
OnlySpacesSubstituted ==
    Processed =>
        /\ Len(output) = Len(input)
        /\ \A p \in Rewritten : output[p + 1] = " "

\* a literal with an escaped space was processed: the opening delimiter, the
\* backslash and the closing delimiter differ from the input, and nothing else
OnlySpacesSubstitutedWitness ==
    /\ Processed
    /\ Len(input) >= 6
    /\ \E p \in 3..(Len(input) - 3) :
          /\ input[p + 1] = "\\" /\ input[p + 2] = " "
          /\ Rewritten = {2, p, Len(input) - 1}


\* C27: Ruby::process is idempotent: processing the buffer it returned
\* returns that buffer again.
ProcessIdempotent ==
    Processed => Ruby_process(output, failed_pop) = output


\* the bytes at positions p and p + 1 are `%w` or `%W`
MarkerAt(bytes, p) ==
    p >= 0 /\ p + 1 < Len(bytes) /\ bytes[p + 1] = "%" /\ bytes[p + 2] \in {"w", "W"}

\* C28: Ruby::process replaces an opening delimiter (`[`, `(` or `{`) with a
\* space only when the delimiter is immediately preceded by `%w` or `%W`, and
\* returns an input that holds no `%w`/`%W` marker unchanged.
OpeningAfterMarkerOnly ==
    Processed =>
        /\ \A p \in Rewritten :
              input[p + 1] \in {"[", "(", "{"} => MarkerAt(input, p - 2)
        /\ (\A p \in 0..(Len(input) - 1) : ~MarkerAt(input, p)) => output = input


\* the input begins with a literal: `%w` or `%W` and an opening delimiter
LiteralAtStart ==
    Len(input) >= 3 /\ MarkerAt(input, 0) /\ input[3] \in {"[", "(", "{"}

\* What a closing bracket does to the brackets that are open, read three ways:
\* any closing bracket ends the innermost open one ("any"), only the one that
\* matches it does ("matching"), or only brackets of the delimiter's own kind
\* nest at all ("own").
Readings == {"any", "matching", "own"}

\* the 1-based index of the first closing delimiter c met at nesting depth
\* zero from bytes[i] on, escape pairs skipped, or 0 if there is none; stack
\* holds the closing brackets awaited
RECURSIVE ClosingAt(_, _, _, _, _)
ClosingAt(bytes, i, stack, c, reading) ==
    IF i > Len(bytes) THEN 0
    ELSE IF bytes[i] = "\\" THEN ClosingAt(bytes, i + 2, stack, c, reading)
    ELSE IF bytes[i] \in {"[", "(", "{"} THEN
        ClosingAt(bytes, i + 1,
                  IF reading = "own" /\ Ruby_boundary(bytes[i]) # c THEN stack
                  ELSE Append(stack, Ruby_boundary(bytes[i])),
                  c, reading)
    ELSE IF bytes[i] \in {"]", ")", "}"} /\ stack # <<>> THEN
        ClosingAt(bytes, i + 1,
                  IF reading = "any" \/ stack[Len(stack)] = bytes[i]
                  THEN SubSeq(stack, 1, Len(stack) - 1) ELSE stack,
                  c, reading)
    ELSE IF bytes[i] = c THEN i
    ELSE ClosingAt(bytes, i + 1, stack, c, reading)

\* the brackets of the literal's body, up to index upto, that were rewritten
RewrittenBrackets(upto) ==
    {i \in 4..upto : input[i] \in {"[", "(", "{", "]", ")", "}"} /\ output[i] # input[i]}

\* the one bracket rewritten, up to the closing delimiter at index close, is
\* that delimiter; with no closing delimiter (0), no bracket is rewritten
ClosedAt(close) ==
    IF close = 0 THEN RewrittenBrackets(Len(input)) = {}
    ELSE RewrittenBrackets(close) = {close}

\* C29: within a `%w` literal opened by delimiter D, the closing byte that is
\* replaced with a space is the first closing D met at bracket nesting depth
\* zero, and the brackets nested inside the literal are left unchanged; the
\* nesting depth is taken in whichever of the three readings fits the output.
ClosedAtDepthZero ==
    (Processed /\ LiteralAtStart) =>
        \E reading \in Readings :
            ClosedAt(ClosingAt(input, 4, <<>>, Ruby_boundary(input[3]), reading))


\* the 1-based indices of the backslashes that begin an escape pair from
\* bytes[i] on: a backslash and the byte it escapes are taken together
RECURSIVE EscapePairs(_, _)
EscapePairs(bytes, i) ==
    IF i >= Len(bytes) THEN {}
    ELSE IF bytes[i] = "\\" THEN {i} \cup EscapePairs(bytes, i + 2)
    ELSE EscapePairs(bytes, i + 1)

\* where the literal at the start of the input was closed: the index of the
\* first bracket of its body that was rewritten, or past the input
LiteralEnd ==
    LET brackets == RewrittenBrackets(Len(input))
    IN  IF brackets = {} THEN Len(input) + 1
        ELSE CHOOSE i \in brackets : \A j \in brackets : i <= j

\* the escape pairs inside the literal at the start of the input
PairsInLiteral == {i \in EscapePairs(input, 4) : i < LiteralEnd}

\* the byte escaped at index i + 1 does nothing: with a letter in its place,
\* every other byte of the output, the backslash apart, is the same
EscapedByteInert(i) ==
    LET other == Ruby_process([input EXCEPT ![i + 1] = "a"], failed_pop)
    IN  \A j \in (1..Len(input)) \ {i, i + 1} : other[j] = output[j]

\* C30: inside a `%w` literal, each backslash-space pair is rewritten to two
\* spaces and any other backslash pair is left unchanged; the escaped byte of
\* a pair, even a bracket or the closing delimiter, neither closes the literal
\* nor changes the nesting depth.
EscapePairsRewritten ==
    (Processed /\ LiteralAtStart) =>
        \A i \in PairsInLiteral :
            /\ input[i + 1] = " " => output[i] = " " /\ output[i + 1] = " "
            /\ input[i + 1] # " " => output[i] = "\\" /\ output[i + 1] = input[i + 1]
            /\ EscapedByteInert(i)


\* the bytes split at single spaces
RECURSIVE Tokens(_, _)
Tokens(bytes, token) ==
    IF bytes = <<>> THEN <<token>>
    ELSE IF Head(bytes) = " " THEN <<token>> \o Tokens(Tail(bytes), <<>>)
    ELSE Tokens(Tail(bytes), Append(token, Head(bytes)))

\* utilities the payloads are made of
PayloadUtilities == {Chars(u) : u \in {"flex", "px-2.5", "items-center", "ab"}}

\* the input is what Ruby::process leaves of a `%w` literal whose payload is a
\* space-separated list of utilities: the marker, a space for the opening
\* delimiter, the payload, a space for the closing delimiter
ProcessedLiteral ==
    /\ Len(input) >= 5 /\ MarkerAt(input, 0)
    /\ input[3] = " " /\ input[Len(input)] = " "
    /\ \A i \in DOMAIN Tokens(SubSeq(input, 4, Len(input) - 1), <<>>) :
          Tokens(SubSeq(input, 4, Len(input) - 1), <<>>)[i] \in PayloadUtilities

\* C31: for a `%w` literal whose payload is a space-separated list of valid
\* utilities, extract on the pre-processed bytes returns exactly the payload
\* tokens as candidates, in order, and nothing else: no candidate for the
\* marker letter `w`.
PayloadCandidatesOnly ==
    (Returned /\ ProcessedLiteral) =>
        CandidateBytes = Tokens(SubSeq(input, 4, Len(input) - 1), <<>>)


\* the spans a UtilityMachine alone emits over an input, fed one position at
\* a time as in the machines' own tests
RECURSIVE UtilityRun(_, _, _, _)
UtilityRan(in, p, spans, fed) ==
    UtilityRun(in, p + 1, fed.m, IF IsDone(fed.r) THEN Append(spans, fed.r.span) ELSE spans)

UtilityRun(in, p, machine, spans) ==
    IF p >= Len(in) THEN spans
    ELSE UtilityRan(in, p, spans, UtilityMachine_next(machine, Cursor(in, p)))

\* the UtilityMachine alone emits the whole of the bytes, and nothing else
EmitsWhole(bytes) ==
    /\ bytes # <<>>
    /\ UtilityRun(bytes, 0, UtilityMachine_default, <<>>)
           = <<[start |-> 0, end |-> Len(bytes) - 1]>>

NamedVariants == {Chars(v) : v \in {"a:", "ab:", "hover:"}}

\* the input is a named variant and, touching it, a utility the
\* UtilityMachine emits whole
VariantThenUtility ==
    \E v \in NamedVariants :
        /\ Len(input) > Len(v)
        /\ SubSeq(input, 1, Len(v)) = v
        /\ EmitsWhole(SubSeq(input, Len(v) + 1, Len(input)))

\* C32: for a named variant V and any utility U that the UtilityMachine emits
\* whole, legacy forms beginning with `!` included, extract on V followed by
\* U returns exactly one Candidate, the whole input.
TouchingVariantKeepsUtility ==
    (Returned /\ VariantThenUtility) => CandidateBytes = <<input>>

Dropped == pc = "dropped"

\* the spans naive_drop_covered_spans returned
KeptSpans == [i \in 1..Len(extracted) |-> extracted[i].span]

SpansOf(list) == {list[i] : i \in 1..Len(list)}

PartlyOverlap(a, b) == a.start < b.start /\ b.start <= a.end /\ a.end < b.end

\* C33: naive_drop_covered_spans returns spans of its input, each once, in
\* ascending order of start, none of which lies within another; every span it
\* drops lies within a span it keeps, and a span that lies within no other
\* span of the input (it may partly overlap others) is kept.
DropsCoveredSpansOnly ==
    Dropped =>
        /\ SpansOf(KeptSpans) \subseteq SpansOf(in_flight_spans)
        /\ \A i, j \in 1..Len(KeptSpans) :
              i < j => /\ KeptSpans[i].start <= KeptSpans[j].start
                       /\ ~Covers(KeptSpans[i], KeptSpans[j])
                       /\ ~Covers(KeptSpans[j], KeptSpans[i])
        /\ \A s \in SpansOf(in_flight_spans) \ SpansOf(KeptSpans) :
              \E k \in SpansOf(KeptSpans) : Covers(k, s)
        /\ \A s \in SpansOf(in_flight_spans) :
              (\A t \in SpansOf(in_flight_spans) \ {s} : ~Covers(t, s))
                  => s \in SpansOf(KeptSpans)

\* a vector out of order with two partly overlapping spans, both kept, and a
\* third span, dropped
DropsCoveredSpansOnlyWitness ==
    /\ Dropped
    /\ Len(in_flight_spans) = 3
    /\ in_flight_spans[1].start > in_flight_spans[2].start
    /\ Len(KeptSpans) = 2
    /\ PartlyOverlap(KeptSpans[1], KeptSpans[2])

CandidateSpans == [i \in 1..Len(Candidates) |-> Candidates[i].span]

\* the spans a nested machine pushed at the `[` at position p completes, were
\* it fed to the end of the input
NestedSpans(p) == SpansOf(Scan(input, p + 1, CandidateMachine_default, <<>>))

RECURSIVE DeepestNesting(_, _, _, _)
DeepestNesting(p, i, depth, deepest) ==
    IF i >= p THEN deepest
    ELSE IF is_ascii_whitespace(ByteAt(input, i)) THEN DeepestNesting(p, i + 1, 0, 0)
    ELSE IF ByteAt(input, i) = "["
         THEN DeepestNesting(p, i + 1, depth + 1,
                             IF depth + 1 > deepest THEN depth + 1 ELSE deepest)
    ELSE IF ByteAt(input, i) = "]" /\ depth > 0
         THEN DeepestNesting(p, i + 1, depth - 1, deepest)
    ELSE DeepestNesting(p, i + 1, depth, deepest)

\* C35: during extract, the number of live nested CandidateMachines is at most
\* the deepest nesting of `[` seen since the last ASCII whitespace (sibling
\* brackets do not accumulate), and it is zero right after a whitespace byte.
NestedMachinesBounded ==
    pc \in {"scan", "done"} =>
        /\ Len(candidate_machines) <= DeepestNesting(pos, 0, 0, 0)
        /\ (pos > 0 /\ is_ascii_whitespace(ByteAt(input, pos - 1)))
               => candidate_machines = <<>>

\* the machines and the vectors of extract after the loop body ran, in the
\* order of the code, at the cursor: s is the state before, nested, c and v
\* what the feeds gave
InOrderFed(s, cursor, nested, c, v) ==
    [candidate_machines |-> nested,
     candidate_machine |-> c.m,
     in_flight_spans |-> IF IsDone(c.r) THEN Append(s.in_flight_spans, c.r.span)
                         ELSE s.in_flight_spans,
     css_variable_machine |-> v.m,
     extracted |-> IF IsDone(v.r)
                   THEN Append(s.extracted, CssVariable(v.r.span, cursor.input))
                   ELSE s.extracted]

InOrderStep(s, cursor) ==
    InOrderFed(s, cursor,
               NestedMachines(s.candidate_machines, cursor),
               CandidateMachine_next(s.candidate_machine, cursor),
               CssVariableMachine_next(s.css_variable_machine, cursor))

\* the state of extract after p iterations of its loop, each in the order of
\* the code
RECURSIVE InOrder(_, _)
InOrder(in, p) ==
    IF p = 0
    THEN [candidate_machines |-> <<>>,
          candidate_machine |-> CandidateMachine_default,
          in_flight_spans |-> <<>>,
          css_variable_machine |-> CssVariableMachine_default,
          extracted |-> <<>>]
    ELSE InOrderStep(InOrder(in, p - 1), Cursor(in, p - 1))

\* what extract returns from the state its loop ended in
InOrderResult(s, in) ==
    LET spans == naive_drop_covered_spans(s.in_flight_spans)
    IN  s.extracted \o [i \in 1..Len(spans) |-> Candidate(spans[i], in)]

\* the machines fed at pos are as after pos + 1 iterations in the order of
\* the code, the others as after pos iterations
AsInOrder(before, after) ==
    /\ candidate_machines =
          IF "candidate_machines" \in fed_machines THEN after.candidate_machines
          ELSE before.candidate_machines
    /\ candidate_machine =
          IF "candidate_machine" \in fed_machines THEN after.candidate_machine
          ELSE before.candidate_machine
    /\ in_flight_spans =
          IF "candidate_machine" \in fed_machines THEN after.in_flight_spans
          ELSE before.in_flight_spans
    /\ css_variable_machine =
          IF "css_variable_machine" \in fed_machines THEN after.css_variable_machine
          ELSE before.css_variable_machine
    /\ extracted =
          IF "css_variable_machine" \in fed_machines THEN after.extracted
          ELSE before.extracted

\* C36: at each position, in whatever order the nested machines, the
\* top-level machine and the CssVariableMachine are fed, every machine and
\* every vector is afterwards as the order of the code leaves it, and extract
\* returns the same result.
AnyOrderSameResult ==
    /\ (pc = "scan" /\ pos < Len(input))
           => AsInOrder(InOrder(input, pos), InOrder(input, pos + 1))
    /\ (pc = "scan" /\ pos = Len(input))
           => AsInOrder(InOrder(input, pos), InOrder(input, pos))
    /\ Returned => extracted = InOrderResult(InOrder(input, Len(input)), input)

\* the CssVariableMachine and the top-level machine were fed before the
\* nested machines, and both completed a span at this position
AnyOrderSameResultWitness ==
    /\ pc = "scan"
    /\ fed_machines = {"css_variable_machine", "candidate_machine"}
    /\ candidate_machines # <<>>
    /\ IsDone(obs.state)
    /\ obs.state.span.end = pos
    /\ extracted # <<>>
    /\ extracted[Len(extracted)].span.end = pos

\* the machines that have a skip_until_pos field
SkipMachines ==
    {"string_machine", "css_variable_machine", "arbitrary_value_machine",
     "arbitrary_variable_machine", "arbitrary_property_machine",
     "modifier_machine", "named_utility_machine", "variant_machine",
     "candidate_machine"}

BeforeSkipEnd(self, cursor) ==
    self.skip_until_pos # None /\ cursor.pos < self.skip_until_pos[1]

\* the machines, the skip_until_pos of those not before it cleared
SkipsCleared(machines, cursor) ==
    [f \in DOMAIN machines |->
        IF f \in SkipMachines /\ ~BeforeSkipEnd(machines[f], cursor)
        THEN [machines[f] EXCEPT !.skip_until_pos = None]
        ELSE machines[f]]

\* a call of next on the machine self at the cursor: fed is what it gave,
\* cleared what it gives on the machine with the field cleared
SkipFrame(self, cursor, fed, cleared) ==
    IF BeforeSkipEnd(self, cursor)
    THEN fed.r = Parsing /\ fed.m = self
    ELSE /\ fed.m.skip_until_pos \in {None, Some(cursor.pos + 2)}
         /\ fed = cleared

SkipFrames(machines, cursor, fed, cleared) ==
    \A f \in SkipMachines : SkipFrame(machines[f], cursor, fed[f], cleared[f])

\* C37: in every machine that has a skip_until_pos field, a call of next at
\* a position before skip_until_pos returns Parsing and changes no field of
\* the machine or of its sub-machines; any other call gives what it gives
\* with the field cleared, and leaves the field cleared or set to
\* cursor.pos + 2.
SkipFrameEffect ==
    (pc = "test" /\ pos < Len(input)) =>
        SkipFrames(unit, Cursor(input, pos),
                   FeedAll(unit, Cursor(input, pos)),
                   FeedAll(SkipsCleared(unit, Cursor(input, pos)), Cursor(input, pos)))

\* the ArbitraryPropertyMachine set the field before the `:` that follows a
\* property variable, skipped the call at the `:`, and is now called at
\* skip_until_pos
SkipFrameEffectWitness ==
    /\ pc = "test"
    /\ pos < Len(input)
    /\ unit.arbitrary_property_machine.skip_until_pos = Some(pos)
    /\ unit.arbitrary_property_machine.state = "ParsingValue"
    /\ ByteAt(input, pos - 1) = ":"

\* the index of the first `:` of bytes from byte i on, escape pairs passed
\* over; 0 where there is none
RECURSIVE FirstColon(_, _)
FirstColon(bytes, i) ==
    IF i > Len(bytes) THEN 0
    ELSE IF bytes[i] = ":" THEN i
    ELSE IF bytes[i] = "\\" THEN FirstColon(bytes, i + 2)
    ELSE FirstColon(bytes, i + 1)

\* the number of `:` of bytes from byte i on that lie outside nested brackets
\* (depth of them), string literals (quote is the open one, or NUL) and
\* escape pairs
RECURSIVE ColonsOutside(_, _, _, _)
ColonsOutside(bytes, i, depth, quote) ==
    IF i > Len(bytes) THEN 0
    ELSE IF bytes[i] = "\\" THEN ColonsOutside(bytes, i + 2, depth, quote)
    ELSE IF quote # NUL
         THEN ColonsOutside(bytes, i + 1, depth, IF bytes[i] = quote THEN NUL ELSE quote)
    ELSE IF IsQuote(bytes[i]) THEN ColonsOutside(bytes, i + 1, depth, bytes[i])
    ELSE IF bytes[i] \in {"(", "[", "{"} THEN ColonsOutside(bytes, i + 1, depth + 1, quote)
    ELSE IF bytes[i] \in {")", "]", "}"}
         THEN ColonsOutside(bytes, i + 1, IF depth > 0 THEN depth - 1 ELSE 0, quote)
    ELSE (IF bytes[i] = ":" /\ depth = 0 THEN 1 ELSE 0)
             + ColonsOutside(bytes, i + 1, depth, quote)

PropertyBytes == Alpha \cup {"-"}

IsCssVariableName(bytes) ==
    /\ Len(bytes) >= 3
    /\ bytes[1] = "-" /\ bytes[2] = "-"
    /\ IdentOrEscaped(bytes, 3)

\* `[` property `:` value `]`, colon the index of the `:` in between
PropertyForm(bytes, colon) ==
    /\ bytes[1] = "[" /\ bytes[Len(bytes)] = "]"
    /\ colon > 2
    /\ \/ \A i \in 2..(colon - 1) : bytes[i] \in PropertyBytes
       \/ IsCssVariableName(SubSeq(bytes, 2, colon - 1))
    /\ ColonsOutside(SubSeq(bytes, colon + 1, Len(bytes) - 1), 1, 0, NUL) = 0

ArbitraryPropertySpans == SpansOf(actual.arbitrary_property_machine)

\* C38: every span the ArbitraryPropertyMachine emits is `[` property `:`
\* value `]`, the property not empty and either made of letters and dashes or
\* a CSS variable, with no `:` in the value outside nested brackets, string
\* literals and escape pairs; `[red]`, `[:red]`, `[color:red:blue]` and
\* `[color: red]` emit nothing.
ArbitraryPropertyShape ==
    pc = "test" =>
        /\ \A span \in ArbitraryPropertySpans :
              PropertyForm(slice(span, input), FirstColon(slice(span, input), 1))
        /\ (TestEnded /\ input \in {Chars("[red]"), Chars("[:red]"),
                                    Chars("[color:red:blue]"), Chars("[color: red]")})
               => ArbitraryPropertySpans = {}

\* the index of the first `,` of bytes from byte i on, escape pairs passed
\* over; 0 where there is none
RECURSIVE FirstComma(_, _)
FirstComma(bytes, i) ==
    IF i > Len(bytes) THEN 0
    ELSE IF bytes[i] = "," THEN i
    ELSE IF bytes[i] = "\\" THEN FirstComma(bytes, i + 2)
    ELSE FirstComma(bytes, i + 1)

\* `(` CSS variable `)`, or `(` CSS variable `,` fallback `)` with comma the
\* index of the `,` in between
VariableForm(bytes, comma) ==
    /\ bytes[1] = "(" /\ bytes[Len(bytes)] = ")"
    /\ IF comma = 0
       THEN IsCssVariableName(SubSeq(bytes, 2, Len(bytes) - 1))
       ELSE /\ IsCssVariableName(SubSeq(bytes, 2, comma - 1))
            /\ Balanced(SubSeq(bytes, comma + 1, Len(bytes) - 1), 1, <<>>, "")
            /\ ColonsOutside(SubSeq(bytes, comma + 1, Len(bytes) - 1), 1, 0, NUL) = 0

ArbitraryVariableSpans == SpansOf(actual.arbitrary_variable_machine)

\* C39: every span the ArbitraryVariableMachine emits is `(` CSS variable `)`
\* or `(` CSS variable `,` fallback `)`, the brackets of the fallback outside
\* string literals balanced and no `:` of it at bracket depth zero outside
\* string literals; `(bar)`, `(-)`, `(--my#color)` and `(--foo,bar:baz)` emit
\* nothing.
ArbitraryVariableShape ==
    pc = "test" =>
        /\ \A span \in ArbitraryVariableSpans :
              VariableForm(slice(span, input), FirstComma(slice(span, input), 1))
        /\ (TestEnded /\ input \in {Chars("(bar)"), Chars("(-)"),
                                    Chars("(--my#color)"), Chars("(--foo,bar:baz)")})
               => ArbitraryVariableSpans = {}

NamedVariantSpans == SpansOf(actual.named_variant_machine)

\* the bytes a single-character variant is made of, and those a longer one
\* begins with
SingleVariantBytes == Lower \cup {"*", "-", "_"}

VariantStartBytes == Lower \cup Digit \cup {"*", "-", "_", "@"}

\* a single-character variant occurs at position p: at the start of the input
\* or after ASCII whitespace, one of the bytes and then `:`
SingleVariantAt(p) ==
    /\ ByteAt(input, p) \in SingleVariantBytes
    /\ ByteAt(input, p + 1) = ":"
    /\ p + 1 < Len(input)
    /\ p = 0 \/ is_ascii_whitespace(ByteAt(input, p - 1))

\* C40: for a single-character variant `x:` at position p the
\* NamedVariantMachine emits the span [p, p + 1], and every span it emits
\* starts at a byte a variant begins with and ends at a `:`.
SingleCharacterVariantSpan ==
    pc = "test" =>
        /\ \A p \in 0..(pos - 2) :
              SingleVariantAt(p) => Span(p, p + 1) \in NamedVariantSpans
        /\ \A span \in NamedVariantSpans :
              /\ ByteAt(input, span.end) = ":"
              /\ ByteAt(input, span.start) \in VariantStartBytes

=============================================================================
